---- MODULE Spec2Model ----
(***************************************************************************)
(* The chunk lifecycle of the voxel engine, in its two revisions:          *)
(*   src/src/level.rs      one state map, seven-valued ChunkLoadState      *)
(*   src/src/level/mod.rs  generation map + mesh map + removed set         *)
(* The coordinator systems run on one thread and take the shared maps with *)
(* try_write/try_lock for a whole system; worker tasks take them with      *)
(* read()/lock()/write() for one block.  Every locked block is therefore   *)
(* one atomic step here, and a task is a small program counter between its *)
(* blocks.  A coordinator system whose try-acquisition fails returns at    *)
(* the acquisition; these runs are the *_contended actions of              *)
(* SpecContended.                                                          *)
(***************************************************************************)
EXTENDS Integers, FiniteSets, Sequences, Bags, TLC

(* ---------------------------------------------------------------- bounds *)
\* How often one coordinate may be tracked anew (marked Uninitialized).
MaxEpoch == 2
\* How many build_chunk_mesh tasks for one coordinate may wait at their start.
MaxDuplicates == 2
\* Up to where the rolled-back evictions of one coordinate are counted.
MaxHeldEvictions == 2
\* How many direct block edits one coordinate may get.
MaxEdits == 1

(* ------------------------------------------------------------- constants *)
horizontal_render_distance == 3
vertical_render_distance == 3

\* The chunk coordinates a run may follow: a run follows the coordinates of one
\* of these sets (the lifecycles of different coordinates share no state but the
\* camera); the chunk at y = 0 has blocks, the ones at y = 1 and y = 3 have
\* none.  The coordinate at y = 3 is in range of both camera chunks, and for
\* the lower one it lies on the upper edge of the window.
Worlds == { { <<0, 0, 0>> }, { <<0, 1, 0>> }, { <<0, 3, 0>> } }
\* The chunk coordinates the camera may be in (ChunkGrid::to_chunk_coordinates
\* of its translation): below (0,5,0) the coordinates at y = 0 and y = 1 are
\* out of range.
CameraChunks == { <<0, 0, 0>>, <<0, 5, 0>> }

Abs(n) == IF n < 0 THEN -n ELSE n

\* Option::None for a mesh, a chunk, an entity, a file.
NONE == 0

(* ------------------------------------------------------------- variables *)
VARIABLES
    revision,        \* which level module is compiled in
    skipped,         \* history: the coordinator system whose run, as the last
                     \* step, returned at a failed try-acquisition, else "none"
    World,           \* the chunk coordinates the run follows
    camera,          \* chunk coordinate of the camera
    chunk_grid,      \* coordinate -> chunk (its id), NONE when absent
    chunk_states,    \* coordinate -> tracking entry, NoEntry when absent
    chunk_entities,  \* coordinate -> TRUE when the map holds an entity for it
    removed,         \* level/mod.rs: coordinates pending eviction
    remesh,          \* level/mod.rs: re-mesh queue
    mesh_states,     \* level/mod.rs: coordinate -> mesh entry, NoEntry when absent
    tasks,           \* bag of detached tasks in flight
    cleanup_tasks,   \* level/mod.rs: bag of deferred mesh_states removals
    files,           \* coordinate -> id of the chunk persisted on disk, NONE when none
    epoch,           \* history: how often the coordinate was marked Uninitialized
    held_evictions,  \* history: how often remove_far_chunks extracted the
                     \* coordinate's chunk while a task held a strong reference
    live_entities,   \* history: spawned and not despawned entities of a coordinate
    entity_mesh,     \* mesh of the entity the map holds for a coordinate
    contents,        \* coordinate -> number of direct block edits made to its
                     \* chunk (kept by the chunk's file across eviction)
    input,           \* the arguments a run of the conversions and of the mesher
                     \* is about, NONE in the runs of the level
    call             \* the last function applied to the input, with its result

vars == << revision, skipped, World, camera, chunk_grid, chunk_states, chunk_entities, removed,
           remesh, mesh_states, tasks, cleanup_tasks, files, epoch,
           held_evictions, live_entities, entity_mesh, contents, input, call >>

\* The state of the level.
level_vars == << revision, skipped, World, camera, chunk_grid, chunk_states,
                 chunk_entities, removed, remesh, mesh_states, tasks,
                 cleanup_tasks, files, epoch, held_evictions, live_entities,
                 entity_mesh, contents >>

\* The function under study and its arguments.
calls == << input, call >>
NoCall == [op |-> "none"]

\* What level.rs never touches.
mod_only == << removed, remesh, mesh_states, cleanup_tasks, files, held_evictions >>

(* --------------------------------------------------------------- entries *)
\* One entry of a state map: the tag of the enum, its payload (the mesh, the
\* chunk or the entity), and history: the epoch the entry was inserted in, the
\* epoch of the task whose hand-off wrote the payload, and how many tasks
\* performed the entry's Uninitialized -> Generating and
\* Generated -> MeshBuilding transitions.
Entry(tag, val, ep, by, gens, builds) ==
    [tag |-> tag, val |-> val, ep |-> ep, by |-> by, gens |-> gens, builds |-> builds]

NoEntry == Entry("NoEntry", NONE, 0, 0, 0, 0)

ChunkLoadState ==
    { "Uninitialized", "Generating", "Generated", "MeshBuilding", "MeshReady",
      "Saving", "Saved" }

ChunkGenerationState == { "Uninitialized", "Ready", "Removed" }

ChunkMeshState == { "Unmeshed", "Ready" }

\* A task: which async fn, its position argument, where it stands, and what it
\* carries: the epoch it was spawned in (history), the chunk it refers to, a
\* value it computed, and whether it holds an upgraded (strong) reference.
Task(kind, pos, pc, ep, chunk, val, strong) ==
    [kind |-> kind, pos |-> pos, pc |-> pc, ep |-> ep, chunk |-> chunk,
     val |-> val, strong |-> strong]

Spawn(bag, set) == bag (+) SetToBag(set)
Finish(bag, t) == bag (-) SetToBag({t})
Advance(bag, t, u) == (bag (-) SetToBag({t})) (+) SetToBag({u})

\* Number of tasks in flight that satisfy P.
RECURSIVE CountIn(_, _)
CountIn(bag, set) ==
    IF set = {} THEN 0
    ELSE LET t == CHOOSE x \in set : TRUE
         IN CopiesIn(t, bag) + CountIn(bag, set \ {t})

(* ---------------------------------------------------------------- window *)
\* level.rs:349-352, level/mod.rs:386-387: the in-range test of eviction.
\* A test that takes the edge of the window for out of range.
InRange_EdgeExcluded(position, camera_position) ==
    /\ Abs(position[1] - camera_position[1]) < horizontal_render_distance
    /\ Abs(position[2] - camera_position[2]) < vertical_render_distance
    /\ Abs(position[3] - camera_position[3]) < horizontal_render_distance

InRange(position, camera_position) ==
    /\ Abs(position[1] - camera_position[1]) <= horizontal_render_distance
    /\ Abs(position[2] - camera_position[2]) <= vertical_render_distance
    /\ Abs(position[3] - camera_position[3]) <= horizontal_render_distance

\* level.rs:132-139: the scan of generate_nearby_chunks, ..= on every axis.
NearbyInclusive(camera_position) ==
    { p \in World :
        /\ camera_position[1] - horizontal_render_distance <= p[1]
        /\ p[1] <= camera_position[1] + horizontal_render_distance
        /\ camera_position[2] - vertical_render_distance <= p[2]
        /\ p[2] <= camera_position[2] + vertical_render_distance
        /\ camera_position[3] - horizontal_render_distance <= p[3]
        /\ p[3] <= camera_position[3] + horizontal_render_distance }

\* level/mod.rs:148-161: min..max on every axis, the upper bound excluded.
NearbyHalfOpen(camera_position) ==
    { p \in World :
        /\ camera_position[1] - horizontal_render_distance <= p[1]
        /\ p[1] < camera_position[1] + horizontal_render_distance
        /\ camera_position[2] - vertical_render_distance <= p[2]
        /\ p[2] < camera_position[2] + vertical_render_distance
        /\ camera_position[3] - horizontal_render_distance <= p[3]
        /\ p[3] < camera_position[3] + horizontal_render_distance }

\* chunk/mod.rs:82-85: height = sample * 10 + 2 with |sample| <= 1, so a
\* chunk above y = 0 gets no block and its mesh has no face.
GeneratesEmpty(position) == position[2] >= 1

\* The Option<Mesh> built from chunk `chunk` at `position`: the mesh is named
\* by the chunk it was built from.
MeshOf(position, chunk) == IF GeneratesEmpty(position) THEN NONE ELSE chunk

\* A mesh is also named by the number of edits its build has read.
MeshStride == MaxEpoch + 1
EditedMesh(mesh, edits) == IF mesh = NONE THEN NONE ELSE mesh + edits * MeshStride
SeenEdits(mesh) == mesh \div MeshStride

(* ------------------------------------------------------------------ init *)
setup_level ==
    /\ revision \in { "level.rs", "level/mod.rs" }
    /\ skipped = "none"
    /\ World \in Worlds
    /\ camera \in CameraChunks
    /\ chunk_grid = [p \in World |-> NONE]
    /\ chunk_states = [p \in World |-> NoEntry]
    /\ chunk_entities = [p \in World |-> FALSE]
    /\ removed = {}
    /\ remesh = {}
    /\ mesh_states = [p \in World |-> NoEntry]
    /\ tasks = EmptyBag
    /\ cleanup_tasks = EmptyBag
    /\ files = [p \in World |-> NONE]
    /\ epoch = [p \in World |-> 0]
    /\ held_evictions = [p \in World |-> 0]
    /\ live_entities = [p \in World |-> 0]
    /\ entity_mesh = [p \in World |-> NONE]
    /\ contents = [p \in World |-> 0]

Init == setup_level /\ input = NONE /\ call = NoCall

\* The host moves the camera (camera_control.rs); the level only reads it.
move_camera ==
    /\ \E c \in CameraChunks \ {camera} : camera' = c
    /\ skipped' = "none"
    /\ UNCHANGED calls
    /\ UNCHANGED << revision, contents,
                    World, chunk_grid, chunk_states, chunk_entities, removed,
                    remesh, mesh_states, tasks, cleanup_tasks, files, epoch,
                    held_evictions, live_entities, entity_mesh >>

(***************************************************************************)
(* level.rs                                                                *)
(***************************************************************************)

\* level.rs:132-145: the coordinates the scan does not skip.
FreshForGenerate ==
    { p \in NearbyInclusive(camera) :
        chunk_states[p] = NoEntry /\ chunk_grid[p] = NONE }

\* level.rs:117-158
generate_nearby_chunks ==
    LET fresh == FreshForGenerate
    IN /\ revision = "level.rs"
       /\ fresh # {}
       /\ \A p \in fresh : epoch[p] < MaxEpoch
       /\ epoch' = [p \in World |-> IF p \in fresh THEN epoch[p] + 1 ELSE epoch[p]]
       /\ chunk_states' =
            [p \in World |->
               IF p \in fresh
               THEN Entry("Uninitialized", NONE, epoch[p] + 1, 0, 0, 0)
               ELSE chunk_states[p]]
       /\ tasks' = Spawn(tasks,
            { Task("generate_chunk", p, "start", epoch[p] + 1, NONE, NONE, FALSE) :
                p \in fresh })
       /\ skipped' = "none"
       /\ UNCHANGED calls
       /\ UNCHANGED << revision, contents,
                    World, camera, chunk_grid, chunk_entities,
                       live_entities, entity_mesh >>
       /\ UNCHANGED mod_only

\* level.rs:166-177: the check of Uninitialized and the write of Generating,
\* under the read lock of the map and the entry's mutex.
GenerateMayStart(state) == state.tag = "Uninitialized"

generate_chunk_start(t) ==
    /\ t.kind = "generate_chunk" /\ t.pc = "start"
    /\ LET state == chunk_states[t.pos]
       IN IF state # NoEntry /\ GenerateMayStart(state)
          THEN /\ chunk_states' =
                    [chunk_states EXCEPT ![t.pos] =
                        [state EXCEPT !.tag = "Generating", !.gens = @ + 1]]
               /\ tasks' = Advance(tasks, t, [t EXCEPT !.pc = "generating"])
          ELSE /\ tasks' = Finish(tasks, t)
               /\ UNCHANGED chunk_states
    /\ skipped' = "none"
    /\ UNCHANGED calls
    /\ UNCHANGED << revision, contents,
                    World, camera, chunk_grid, chunk_entities, epoch,
                    live_entities, entity_mesh >>
    /\ UNCHANGED mod_only

\* level.rs:179-184: the chunk is produced and inserted into the grid by the
\* task itself; the chunk is named by the epoch of its task.
generate_chunk_insert(t) ==
    /\ t.kind = "generate_chunk" /\ t.pc = "generating"
    /\ chunk_grid' = [chunk_grid EXCEPT ![t.pos] = t.ep]
    /\ tasks' = Advance(tasks, t, [t EXCEPT !.pc = "inserted", !.chunk = t.ep])
    /\ skipped' = "none"
    /\ UNCHANGED calls
    /\ UNCHANGED << revision, contents,
                    World, camera, chunk_states, chunk_entities, epoch,
                    live_entities, entity_mesh >>
    /\ UNCHANGED mod_only

\* level.rs:186-197: the hand-off.
\* The hand-off without its check of the state.
GenerateMayCommit_Unchecked(state) == TRUE

GenerateMayCommit(state) == state.tag = "Generating"

generate_chunk_handoff(t) ==
    /\ t.kind = "generate_chunk" /\ t.pc = "inserted"
    /\ LET state == chunk_states[t.pos]
       IN IF state # NoEntry /\ GenerateMayCommit(state)
          THEN chunk_states' =
                 [chunk_states EXCEPT ![t.pos] =
                     [state EXCEPT !.tag = "Generated", !.by = t.ep]]
          ELSE UNCHANGED chunk_states
    /\ tasks' = Finish(tasks, t)
    /\ skipped' = "none"
    /\ UNCHANGED calls
    /\ UNCHANGED << revision, contents,
                    World, camera, chunk_grid, chunk_entities, epoch,
                    live_entities, entity_mesh >>
    /\ UNCHANGED mod_only

\* build_chunk_mesh tasks of a coordinate that have not started yet.
WaitingBuilds(p) ==
    CountIn(tasks, { t \in BagToSet(tasks) :
                       t.kind = "build_chunk_mesh" /\ t.pos = p /\ t.pc = "start" })

\* level.rs:200-228: one task for every Generated coordinate, on every tick.
build_chunk_meshes ==
    LET generated_chunks == { p \in World : chunk_states[p].tag = "Generated" }
    IN /\ revision = "level.rs"
       /\ generated_chunks # {}
       /\ \A p \in generated_chunks : WaitingBuilds(p) < MaxDuplicates
       /\ tasks' = Spawn(tasks,
            { Task("build_chunk_mesh", p, "start", chunk_states[p].ep, NONE, NONE, FALSE) :
                p \in generated_chunks })
       /\ skipped' = "none"
       /\ UNCHANGED calls
       /\ UNCHANGED << revision, contents,
                    World, camera, chunk_grid, chunk_states, chunk_entities,
                       epoch, live_entities, entity_mesh >>
       /\ UNCHANGED mod_only

\* level.rs:236-247
\* A start that also accepts an entry no task has generated for.
BuildMayStart_AlsoUninitialized(state) ==
    state.tag \in { "Generated", "Uninitialized" }

BuildMayStart(state) == state.tag = "Generated"

build_chunk_mesh_start(t) ==
    /\ t.kind = "build_chunk_mesh" /\ t.pc = "start"
    /\ LET state == chunk_states[t.pos]
       IN IF state # NoEntry /\ BuildMayStart(state)
          THEN /\ chunk_states' =
                    [chunk_states EXCEPT ![t.pos] =
                        [state EXCEPT !.tag = "MeshBuilding", !.builds = @ + 1]]
               /\ tasks' = Advance(tasks, t, [t EXCEPT !.pc = "building"])
          ELSE /\ tasks' = Finish(tasks, t)
               /\ UNCHANGED chunk_states
    /\ skipped' = "none"
    /\ UNCHANGED calls
    /\ UNCHANGED << revision, contents,
                    World, camera, chunk_grid, chunk_entities, epoch,
                    live_entities, entity_mesh >>
    /\ UNCHANGED mod_only

\* level.rs:249-260: the mesh is built under the grid lock; a missing chunk
\* ends the task.
build_chunk_mesh_build(t) ==
    /\ t.kind = "build_chunk_mesh" /\ t.pc = "building"
    /\ IF chunk_grid[t.pos] = NONE
       THEN tasks' = Finish(tasks, t)
       ELSE tasks' = Advance(tasks, t,
                [t EXCEPT !.pc = "built", !.chunk = chunk_grid[t.pos],
                          !.val = MeshOf(t.pos, chunk_grid[t.pos])])
    /\ skipped' = "none"
    /\ UNCHANGED calls
    /\ UNCHANGED << revision, contents,
                    World, camera, chunk_grid, chunk_states, chunk_entities,
                    epoch, live_entities, entity_mesh >>
    /\ UNCHANGED mod_only

\* level.rs:262-273: the hand-off.
BuildMayCommit(state) == state.tag = "MeshBuilding"

build_chunk_mesh_handoff(t) ==
    /\ t.kind = "build_chunk_mesh" /\ t.pc = "built"
    /\ LET state == chunk_states[t.pos]
       IN IF state # NoEntry /\ BuildMayCommit(state)
          THEN chunk_states' =
                 [chunk_states EXCEPT ![t.pos] =
                     [state EXCEPT !.tag = "MeshReady", !.val = t.val, !.by = t.ep]]
          ELSE UNCHANGED chunk_states
    /\ tasks' = Finish(tasks, t)
    /\ skipped' = "none"
    /\ UNCHANGED calls
    /\ UNCHANGED << revision, contents,
                    World, camera, chunk_grid, chunk_entities, epoch,
                    live_entities, entity_mesh >>
    /\ UNCHANGED mod_only

\* level.rs:276-327: every MeshReady entry has its mesh taken; with an entity
\* in the map the entity is updated and the entry stays (continue), without
\* one an entity is spawned, mapped, and the entry removed.
update_chunk_entities ==
    LET completed_meshes == { p \in World : chunk_states[p].tag = "MeshReady" }
        spawning == { p \in completed_meshes : ~chunk_entities[p] }
    IN /\ revision = "level.rs"
       /\ completed_meshes # {}
       /\ \/ spawning # {}
          \/ \E p \in completed_meshes : chunk_states[p].val # NONE
          \/ \E p \in completed_meshes : entity_mesh[p] # NONE
       /\ entity_mesh' =
            [p \in World |->
               IF p \in completed_meshes THEN chunk_states[p].val ELSE entity_mesh[p]]
       /\ live_entities' =
            [p \in World |->
               IF p \in spawning THEN live_entities[p] + 1 ELSE live_entities[p]]
       /\ chunk_entities' = [p \in World |-> chunk_entities[p] \/ p \in spawning]
       /\ chunk_states' =
            [p \in World |->
               IF p \in spawning THEN NoEntry
               ELSE IF p \in completed_meshes
                    THEN [chunk_states[p] EXCEPT !.val = NONE]
                    ELSE chunk_states[p]]
       /\ skipped' = "none"
       /\ UNCHANGED calls
       /\ UNCHANGED << revision, contents,
                    World, camera, chunk_grid, tasks, epoch >>
       /\ UNCHANGED mod_only

\* A filter that also lets a coordinate in the Saving state through.
DiscardsTracked_AlsoSaving(state) ==
    state.tag \in { "Uninitialized", "Generating", "MeshBuilding", "Saving" }

\* level.rs:356-368: the filter on the tracked state of an out-of-range chunk:
\* an untracked coordinate is discarded, a tracked one only in these states.
DiscardsTracked(state) ==
    state.tag \in { "Uninitialized", "Generating", "MeshBuilding" }

\* level.rs:329-389
discard_far_chunks ==
    LET far_chunks ==
          { p \in World :
              /\ chunk_grid[p] # NONE
              /\ ~InRange(p, camera)
              /\ (chunk_states[p] # NoEntry => DiscardsTracked(chunk_states[p])) }
    IN /\ revision = "level.rs"
       /\ far_chunks # {}
       /\ chunk_states' =
            [p \in World |->
               IF p \in far_chunks
               THEN Entry("Saving", NONE, epoch[p], 0, 0, 0)
               ELSE chunk_states[p]]
       /\ tasks' = Spawn(tasks,
            { Task("level_rs_save_chunk", p, "start", epoch[p], NONE, NONE, FALSE) :
                p \in far_chunks })
       /\ skipped' = "none"
       /\ UNCHANGED calls
       /\ UNCHANGED << revision, contents,
                    World, camera, chunk_grid, chunk_entities, epoch,
                       live_entities, entity_mesh >>
       /\ UNCHANGED mod_only

\* level.rs:397-401
level_rs_save_chunk_grid(t) ==
    /\ t.kind = "level_rs_save_chunk" /\ t.pc = "start"
    /\ chunk_grid' = [chunk_grid EXCEPT ![t.pos] = NONE]
    /\ tasks' = Advance(tasks, t, [t EXCEPT !.pc = "grid_removed"])
    /\ skipped' = "none"
    /\ UNCHANGED calls
    /\ UNCHANGED << revision, contents,
                    World, camera, chunk_states, chunk_entities, epoch,
                    live_entities, entity_mesh >>
    /\ UNCHANGED mod_only

\* level.rs:402-405
level_rs_save_chunk_entity(t) ==
    /\ t.kind = "level_rs_save_chunk" /\ t.pc = "grid_removed"
    /\ chunk_entities' = [chunk_entities EXCEPT ![t.pos] = FALSE]
    /\ entity_mesh' = [entity_mesh EXCEPT ![t.pos] = NONE]
    /\ tasks' = Advance(tasks, t,
            [t EXCEPT !.pc = "entity_taken",
                      !.val = IF chunk_entities[t.pos] THEN 1 ELSE NONE])
    /\ skipped' = "none"
    /\ UNCHANGED calls
    /\ UNCHANGED << revision, contents,
                    World, camera, chunk_grid, chunk_states, epoch,
                    live_entities >>
    /\ UNCHANGED mod_only

\* level.rs:406-421: with an entity the entry, if any, becomes Saved(entity);
\* without one the entry is removed.
level_rs_save_chunk_state(t) ==
    /\ t.kind = "level_rs_save_chunk" /\ t.pc = "entity_taken"
    /\ IF t.val # NONE
       THEN IF chunk_states[t.pos] # NoEntry
            THEN chunk_states' =
                   [chunk_states EXCEPT ![t.pos] =
                       [@ EXCEPT !.tag = "Saved", !.val = t.val]]
            ELSE UNCHANGED chunk_states
       ELSE chunk_states' = [chunk_states EXCEPT ![t.pos] = NoEntry]
    /\ tasks' = Finish(tasks, t)
    /\ skipped' = "none"
    /\ UNCHANGED calls
    /\ UNCHANGED << revision, contents,
                    World, camera, chunk_grid, chunk_entities, epoch,
                    live_entities, entity_mesh >>
    /\ UNCHANGED mod_only

\* level.rs:435-438: the entries cleanup_saved_chunks collects.
LevelRsCleanupSelects(state) == state.tag = "Saved"

\* level.rs:424-446
level_rs_cleanup_saved_chunks ==
    LET saved_chunks == { p \in World : LevelRsCleanupSelects(chunk_states[p]) }
    IN /\ revision = "level.rs"
       /\ saved_chunks # {}
       /\ chunk_states' =
            [p \in World |-> IF p \in saved_chunks THEN NoEntry ELSE chunk_states[p]]
       /\ live_entities' =
            [p \in World |->
               IF p \in saved_chunks THEN live_entities[p] - 1 ELSE live_entities[p]]
       /\ skipped' = "none"
       /\ UNCHANGED calls
       /\ UNCHANGED << revision, contents,
                    World, camera, chunk_grid, chunk_entities, tasks, epoch,
                       entity_mesh >>
       /\ UNCHANGED mod_only

NextLevelRs ==
    \/ move_camera
    \/ generate_nearby_chunks
    \/ build_chunk_meshes
    \/ update_chunk_entities
    \/ discard_far_chunks
    \/ level_rs_cleanup_saved_chunks
    \/ \E t \in BagToSet(tasks) : generate_chunk_start(t)
    \/ \E t \in BagToSet(tasks) : generate_chunk_insert(t)
    \/ \E t \in BagToSet(tasks) : generate_chunk_handoff(t)
    \/ \E t \in BagToSet(tasks) : build_chunk_mesh_start(t)
    \/ \E t \in BagToSet(tasks) : build_chunk_mesh_build(t)
    \/ \E t \in BagToSet(tasks) : build_chunk_mesh_handoff(t)
    \/ \E t \in BagToSet(tasks) : level_rs_save_chunk_grid(t)
    \/ \E t \in BagToSet(tasks) : level_rs_save_chunk_entity(t)
    \/ \E t \in BagToSet(tasks) : level_rs_save_chunk_state(t)

InitLevelRs == Init /\ revision = "level.rs"

SpecLevelRs == InitLevelRs /\ [][NextLevelRs]_vars

(***************************************************************************)
(* level/mod.rs                                                            *)
(***************************************************************************)

\* A scan that skips tracked and evicting coordinates but not loaded ones.
FreshForCreate_IgnoresGrid ==
    { p \in NearbyHalfOpen(camera) :
        /\ chunk_states[p] = NoEntry
        /\ p \notin removed }

\* level/mod.rs:159-169: the coordinates the scan does not skip.
FreshForCreate ==
    { p \in NearbyHalfOpen(camera) :
        /\ chunk_states[p] = NoEntry
        /\ chunk_grid[p] = NONE
        /\ p \notin removed }

\* level/mod.rs:134-183
mark_nearby_chunks_uninitialized ==
    LET fresh == FreshForCreate
    IN /\ revision = "level/mod.rs"
       /\ fresh # {}
       /\ \A p \in fresh : epoch[p] < MaxEpoch
       /\ epoch' = [p \in World |-> IF p \in fresh THEN epoch[p] + 1 ELSE epoch[p]]
       /\ chunk_states' =
            [p \in World |->
               IF p \in fresh
               THEN Entry("Uninitialized", NONE, epoch[p] + 1, 0, 0, 0)
               ELSE chunk_states[p]]
       /\ tasks' = Spawn(tasks,
            { Task("create_chunk", p, "start", epoch[p] + 1, NONE, NONE, FALSE) :
                p \in fresh })
       /\ skipped' = "none"
       /\ UNCHANGED calls
       /\ UNCHANGED << revision, contents,
                    World, camera, chunk_grid, chunk_entities, removed,
                       remesh, mesh_states, cleanup_tasks, files, held_evictions,
                       live_entities, entity_mesh >>

\* level/mod.rs:191-210: the chunk file is read when there is one, else the
\* chunk is generated; the task's chunk is named by the task's epoch, and val
\* keeps which persisted chunk it was read from.
create_chunk_load(t) ==
    /\ t.kind = "create_chunk" /\ t.pc = "start"
    /\ tasks' = Advance(tasks, t,
            [t EXCEPT !.pc = "loaded", !.chunk = t.ep, !.val = files[t.pos]])
    /\ skipped' = "none"
    /\ UNCHANGED calls
    /\ UNCHANGED << revision, contents,
                    World, camera, chunk_grid, chunk_states,
                    chunk_entities, removed, remesh, mesh_states, cleanup_tasks,
                    files, epoch, held_evictions, live_entities, entity_mesh >>

\* level/mod.rs:212-220: the hand-off.
CreateMayCommit(state) == state.tag = "Uninitialized"

create_chunk_handoff(t) ==
    /\ t.kind = "create_chunk" /\ t.pc = "loaded"
    /\ LET state == chunk_states[t.pos]
       IN IF state # NoEntry /\ CreateMayCommit(state)
          THEN chunk_states' =
                 [chunk_states EXCEPT ![t.pos] =
                     [state EXCEPT !.tag = "Ready", !.val = t.chunk, !.by = t.ep]]
          ELSE UNCHANGED chunk_states
    /\ tasks' = Finish(tasks, t)
    /\ skipped' = "none"
    /\ UNCHANGED calls
    /\ UNCHANGED << revision, contents,
                    World, camera, chunk_grid, chunk_entities, removed,
                    remesh, mesh_states, cleanup_tasks, files, epoch, held_evictions,
                    live_entities, entity_mesh >>

\* level/mod.rs:223-256
finalize_chunk_generation ==
    LET finished_chunks ==
          { p \in World : chunk_states[p].tag = "Ready" /\ chunk_states[p].val # NONE }
        inserted == finished_chunks \ removed
    IN /\ revision = "level/mod.rs"
       /\ finished_chunks # {}
       /\ chunk_states' =
            [p \in World |-> IF p \in finished_chunks THEN NoEntry ELSE chunk_states[p]]
       /\ chunk_grid' =
            [p \in World |->
               IF p \in inserted THEN chunk_states[p].val ELSE chunk_grid[p]]
       /\ remesh' = remesh \cup inserted
       /\ skipped' = "none"
       /\ UNCHANGED calls
       /\ UNCHANGED << revision, contents,
                    World, camera, chunk_entities, removed, mesh_states,
                       tasks, cleanup_tasks, files, epoch, held_evictions,
                       live_entities, entity_mesh >>

\* level/mod.rs:258-281: the queue is drained; every position gets a fresh
\* Unmeshed entry, and a task when its chunk is in the grid.
handle_remesh_queue ==
    /\ revision = "level/mod.rs"
    /\ remesh # {}
    /\ mesh_states' =
         [p \in World |->
            IF p \in remesh
            THEN Entry("Unmeshed", NONE, epoch[p], 0, 0, 0)
            ELSE mesh_states[p]]
    /\ tasks' = Spawn(tasks,
         { Task("remesh_chunk", p, "start", epoch[p], chunk_grid[p], NONE, FALSE) :
             p \in { q \in remesh : chunk_grid[q] # NONE } })
    /\ remesh' = {}
    /\ skipped' = "none"
    /\ UNCHANGED calls
    /\ UNCHANGED << revision, contents,
                    World, camera, chunk_grid, chunk_states,
                    chunk_entities, removed, cleanup_tasks, files, epoch, held_evictions,
                    live_entities, entity_mesh >>

\* A strong reference to chunk `chunk` of `position` held by a task (an
\* upgraded Weak inside build_mesh).
StrongHeld(position, chunk) ==
    \E t \in BagToSet(tasks) : t.pos = position /\ t.chunk = chunk /\ t.strong

\* The Arc of chunk `chunk` is alive while the grid or a task holds it.
Alive(position, chunk) ==
    \/ chunk_grid[position] = chunk
    \/ StrongHeld(position, chunk)

\* chunk/mesh.rs:24-33: build_mesh upgrades its Weak for every cell it reads;
\* a failed upgrade ends build_mesh with None and remesh_chunk returns
\* (level/mod.rs:289-291).
remesh_chunk_upgrade(t) ==
    /\ t.kind = "remesh_chunk" /\ t.pc = "start"
    /\ IF Alive(t.pos, t.chunk)
       THEN tasks' = Advance(tasks, t, [t EXCEPT !.pc = "reading", !.strong = TRUE])
       ELSE tasks' = Finish(tasks, t)
    /\ skipped' = "none"
    /\ UNCHANGED calls
    /\ UNCHANGED << revision, contents,
                    World, camera, chunk_grid, chunk_states,
                    chunk_entities, removed, remesh, mesh_states, cleanup_tasks,
                    files, epoch, held_evictions, live_entities, entity_mesh >>

\* chunk/mesh.rs:25-33: the upgraded reference is dropped at the end of the
\* block and taken again for the next cell.
remesh_chunk_release(t) ==
    /\ t.kind = "remesh_chunk" /\ t.pc = "reading"
    /\ tasks' = Advance(tasks, t, [t EXCEPT !.pc = "start", !.strong = FALSE])
    /\ skipped' = "none"
    /\ UNCHANGED calls
    /\ UNCHANGED << revision, contents,
                    World, camera, chunk_grid, chunk_states,
                    chunk_entities, removed, remesh, mesh_states, cleanup_tasks,
                    files, epoch, held_evictions, live_entities, entity_mesh >>

\* chunk/mesh.rs:278-292: after the last cell build_mesh returns its mesh.
\* An edit made between two cells of the build counts as read by it (the
\* edit asks for a re-mesh of its own in any case).
remesh_chunk_built(t) ==
    /\ t.kind = "remesh_chunk" /\ t.pc = "reading"
    /\ tasks' = Advance(tasks, t,
            [t EXCEPT !.pc = "built", !.strong = FALSE,
                      !.val = EditedMesh(MeshOf(t.pos, t.chunk), contents[t.pos])])
    /\ skipped' = "none"
    /\ UNCHANGED calls
    /\ UNCHANGED << revision, contents,
                    World, camera, chunk_grid, chunk_states,
                    chunk_entities, removed, remesh, mesh_states, cleanup_tasks,
                    files, epoch, held_evictions, live_entities, entity_mesh >>

\* level/mod.rs:293-301: the hand-off.
\* The hand-off without its check of the state.
RemeshMayCommit_Unchecked(state) == TRUE

RemeshMayCommit(state) == state.tag = "Unmeshed"

remesh_chunk_handoff(t) ==
    /\ t.kind = "remesh_chunk" /\ t.pc = "built"
    /\ LET state == mesh_states[t.pos]
       IN IF state # NoEntry /\ RemeshMayCommit(state)
          THEN mesh_states' =
                 [mesh_states EXCEPT ![t.pos] =
                     [state EXCEPT !.tag = "Ready", !.val = t.val, !.by = t.ep]]
          ELSE UNCHANGED mesh_states
    /\ tasks' = Finish(tasks, t)
    /\ skipped' = "none"
    /\ UNCHANGED calls
    /\ UNCHANGED << revision, contents,
                    World, camera, chunk_grid, chunk_states,
                    chunk_entities, removed, remesh, cleanup_tasks, files, epoch,
                    held_evictions, live_entities, entity_mesh >>

\* level/mod.rs:304-369: every Ready mesh entry is taken and removed; the
\* entity of the coordinate is updated, or spawned and mapped when there is
\* none; the removal is repeated by a detached task (a tick with no Ready
\* entry spawns that task with nothing to remove, which is left out).
apply_ready_meshes ==
    LET finished_meshes == { p \in World : mesh_states[p].tag = "Ready" }
        spawning == { p \in finished_meshes : ~chunk_entities[p] }
    IN /\ revision = "level/mod.rs"
       /\ finished_meshes # {}
       /\ mesh_states' =
            [p \in World |-> IF p \in finished_meshes THEN NoEntry ELSE mesh_states[p]]
       /\ entity_mesh' =
            [p \in World |->
               IF p \in finished_meshes THEN mesh_states[p].val ELSE entity_mesh[p]]
       /\ live_entities' =
            [p \in World |->
               IF p \in spawning THEN live_entities[p] + 1 ELSE live_entities[p]]
       /\ chunk_entities' = [p \in World |-> chunk_entities[p] \/ p \in spawning]
       /\ cleanup_tasks' = cleanup_tasks (+) SetToBag({finished_meshes})
       /\ skipped' = "none"
       /\ UNCHANGED calls
       /\ UNCHANGED << revision, contents,
                    World, camera, chunk_grid, chunk_states, removed,
                       remesh, tasks, files, epoch, held_evictions >>

\* level/mod.rs:360-368: the detached removal of the applied positions.
mesh_states_cleanup(removed_meshes) ==
    /\ BagIn(removed_meshes, cleanup_tasks)
    /\ mesh_states' =
         [p \in World |-> IF p \in removed_meshes THEN NoEntry ELSE mesh_states[p]]
    /\ cleanup_tasks' = cleanup_tasks (-) SetToBag({removed_meshes})
    /\ skipped' = "none"
    /\ UNCHANGED calls
    /\ UNCHANGED << revision, contents,
                    World, camera, chunk_grid, chunk_states,
                    chunk_entities, removed, remesh, tasks, files, epoch, held_evictions,
                    live_entities, entity_mesh >>

\* level/mod.rs:397-410: Arc::try_unwrap fails while another strong reference
\* exists; the chunk is then put back.
\* An unwrap that ignores the other strong references.
TryUnwrapFails_Never(position) == FALSE

TryUnwrapFails(position) == StrongHeld(position, chunk_grid[position])

\* level/mod.rs:371-424: every out-of-range chunk is extracted from the grid;
\* one already pending eviction is dropped, one still referenced is put back,
\* every other one is marked removed, unqueued and handed to save_chunk.
remove_far_chunks ==
    LET far_chunks == { p \in World : chunk_grid[p] # NONE /\ ~InRange(p, camera) }
        dropped == far_chunks \cap removed
        kept == { p \in far_chunks \ dropped : TryUnwrapFails(p) }
        saved == (far_chunks \ dropped) \ kept
    IN /\ revision = "level/mod.rs"
       /\ far_chunks # {}
       /\ chunk_grid' =
            [p \in World |-> IF p \in dropped \cup saved THEN NONE ELSE chunk_grid[p]]
       /\ removed' = removed \cup saved
       /\ remesh' = remesh \ saved
       /\ tasks' = Spawn(tasks,
            { Task("save_chunk", p, "start", epoch[p], chunk_grid[p], NONE, FALSE) :
                p \in saved })
       /\ held_evictions' =
            [p \in World |->
               IF /\ p \in far_chunks \ dropped
                  /\ StrongHeld(p, chunk_grid[p])
                  /\ held_evictions[p] < MaxHeldEvictions
               THEN held_evictions[p] + 1 ELSE held_evictions[p]]
       /\ skipped' = "none"
       /\ UNCHANGED calls
       /\ UNCHANGED << revision, contents,
                    World, camera, chunk_states, chunk_entities,
                       mesh_states, cleanup_tasks, files, epoch, live_entities,
                       entity_mesh >>

\* level/mod.rs:432-435
save_chunk_mesh_states(t) ==
    /\ t.kind = "save_chunk" /\ t.pc = "start"
    /\ mesh_states' = [mesh_states EXCEPT ![t.pos] = NoEntry]
    /\ tasks' = Advance(tasks, t, [t EXCEPT !.pc = "mesh_removed"])
    /\ skipped' = "none"
    /\ UNCHANGED calls
    /\ UNCHANGED << revision, contents,
                    World, camera, chunk_grid, chunk_states,
                    chunk_entities, removed, remesh, cleanup_tasks, files, epoch,
                    held_evictions, live_entities, entity_mesh >>

\* level/mod.rs:436-439
save_chunk_chunk_states(t) ==
    /\ t.kind = "save_chunk" /\ t.pc = "mesh_removed"
    /\ chunk_states' =
         [chunk_states EXCEPT ![t.pos] = Entry("Removed", NONE, t.ep, 0, 0, 0)]
    /\ tasks' = Advance(tasks, t, [t EXCEPT !.pc = "marked"])
    /\ skipped' = "none"
    /\ UNCHANGED calls
    /\ UNCHANGED << revision, contents,
                    World, camera, chunk_grid, chunk_entities, removed,
                    remesh, mesh_states, cleanup_tasks, files, epoch, held_evictions,
                    live_entities, entity_mesh >>

\* level/mod.rs:441-453: the chunk is serialized and written; a failure to
\* serialize is logged and nothing is written.
save_chunk_write(t) ==
    /\ t.kind = "save_chunk" /\ t.pc = "marked"
    /\ \E written \in BOOLEAN :
         files' = IF written THEN [files EXCEPT ![t.pos] = t.chunk] ELSE files
    /\ tasks' = Finish(tasks, t)
    /\ skipped' = "none"
    /\ UNCHANGED calls
    /\ UNCHANGED << revision, contents,
                    World, camera, chunk_grid, chunk_states,
                    chunk_entities, removed, remesh, mesh_states, cleanup_tasks,
                    epoch, held_evictions, live_entities, entity_mesh >>

\* level/mod.rs:463-468: the entries cleanup_saved_chunks extracts.
\* A cleanup that matches the wrong variant.
CleanupSelects_Ready(state) == state.tag = "Ready"

CleanupSelects(state) == state.tag = "Removed"

\* A clean-up that unmaps the entity of an evicted coordinate and leaves it
\* spawned.
cleanup_saved_chunks_LeavesEntity ==
    LET removed_chunks == { p \in World : CleanupSelects(chunk_states[p]) }
    IN /\ revision = "level/mod.rs"
       /\ removed_chunks # {}
       /\ chunk_states' =
            [p \in World |-> IF p \in removed_chunks THEN NoEntry ELSE chunk_states[p]]
       /\ removed' = removed \ removed_chunks
       /\ chunk_entities' =
            [p \in World |-> chunk_entities[p] /\ p \notin removed_chunks]
       /\ skipped' = "none"
       /\ UNCHANGED calls
       /\ UNCHANGED << revision, contents,
                    World, camera, chunk_grid, remesh, mesh_states,
                       tasks, cleanup_tasks, files, epoch, held_evictions,
                       live_entities, entity_mesh >>

\* level/mod.rs:456-478
cleanup_saved_chunks ==
    LET removed_chunks == { p \in World : CleanupSelects(chunk_states[p]) }
        despawned == { p \in removed_chunks : chunk_entities[p] }
    IN /\ revision = "level/mod.rs"
       /\ removed_chunks # {}
       /\ chunk_states' =
            [p \in World |-> IF p \in removed_chunks THEN NoEntry ELSE chunk_states[p]]
       /\ removed' = removed \ removed_chunks
       /\ chunk_entities' =
            [p \in World |-> chunk_entities[p] /\ p \notin removed_chunks]
       /\ live_entities' =
            [p \in World |->
               IF p \in despawned THEN live_entities[p] - 1 ELSE live_entities[p]]
       /\ entity_mesh' =
            [p \in World |-> IF p \in despawned THEN NONE ELSE entity_mesh[p]]
       /\ skipped' = "none"
       /\ UNCHANGED calls
       /\ UNCHANGED << revision, contents,
                    World, camera, chunk_grid, remesh, mesh_states,
                       tasks, cleanup_tasks, files, epoch, held_evictions >>

NextLevelMod ==
    \/ move_camera
    \/ mark_nearby_chunks_uninitialized
    \/ finalize_chunk_generation
    \/ handle_remesh_queue
    \/ apply_ready_meshes
    \/ remove_far_chunks
    \/ cleanup_saved_chunks
    \/ \E t \in BagToSet(tasks) : create_chunk_load(t)
    \/ \E t \in BagToSet(tasks) : create_chunk_handoff(t)
    \/ \E t \in BagToSet(tasks) : remesh_chunk_upgrade(t)
    \/ \E t \in BagToSet(tasks) : remesh_chunk_release(t)
    \/ \E t \in BagToSet(tasks) : remesh_chunk_built(t)
    \/ \E t \in BagToSet(tasks) : remesh_chunk_handoff(t)
    \/ \E t \in BagToSet(tasks) : save_chunk_mesh_states(t)
    \/ \E t \in BagToSet(tasks) : save_chunk_chunk_states(t)
    \/ \E t \in BagToSet(tasks) : save_chunk_write(t)
    \/ \E batch \in BagToSet(cleanup_tasks) : mesh_states_cleanup(batch)

InitLevelMod == Init /\ revision = "level/mod.rs"

SpecLevelMod == InitLevelMod /\ [][NextLevelMod]_vars

Next == NextLevelRs \/ NextLevelMod

Spec == Init /\ [][Next]_vars

(***************************************************************************)
(* Contention.  A task holds the locks of a block only while it runs the   *)
(* block, and an entry's mutex only under the read guard of its map, so a  *)
(* try-acquisition of a coordinator system can fail only while some task   *)
(* stands at a block that takes the lock.                                  *)
(***************************************************************************)
\* The locks the next block of task t takes.
LockedNext(t) ==
    CASE t.kind = "generate_chunk" /\ t.pc \in { "start", "inserted" } ->
           { "chunk_states.read", "chunk_states.entry" }
      [] t.kind = "generate_chunk" /\ t.pc = "generating" -> { "chunk_grid" }
      [] t.kind = "build_chunk_mesh" /\ t.pc \in { "start", "built" } ->
           { "chunk_states.read", "chunk_states.entry" }
      [] t.kind = "build_chunk_mesh" /\ t.pc = "building" -> { "chunk_grid" }
      [] t.kind = "level_rs_save_chunk" /\ t.pc = "start" -> { "chunk_grid" }
      [] t.kind = "level_rs_save_chunk" /\ t.pc = "grid_removed" ->
           { "chunk_entities" }
      [] t.kind = "level_rs_save_chunk" /\ t.pc = "entity_taken" ->
           IF t.val # NONE THEN { "chunk_states.read", "chunk_states.entry" }
           ELSE { "chunk_states.write" }
      [] t.kind = "create_chunk" /\ t.pc = "loaded" ->
           { "chunk_states.read", "chunk_states.entry" }
      [] t.kind = "remesh_chunk" /\ t.pc = "built" ->
           { "mesh_states.read", "mesh_states.entry" }
      [] t.kind = "save_chunk" /\ t.pc = "start" -> { "mesh_states.write" }
      [] t.kind = "save_chunk" /\ t.pc = "mesh_removed" -> { "chunk_states.write" }
      [] OTHER -> {}

\* Some task may be inside a block that holds `lock`; the deferred removals of
\* apply_ready_meshes hold the write lock of mesh_states (level/mod.rs:362).
Busy(lock) ==
    \/ \E t \in BagToSet(tasks) : lock \in LockedNext(t)
    \/ lock = "mesh_states.write" /\ cleanup_tasks # EmptyBag

\* RwLock::try_write fails under any guard, try_read under a write guard,
\* Mutex::try_lock under the guard.
TryWriteFails(map) ==
    \/ (IF map = "chunk_states" THEN Busy("chunk_states.read")
        ELSE Busy("mesh_states.read"))
    \/ (IF map = "chunk_states" THEN Busy("chunk_states.write")
        ELSE Busy("mesh_states.write"))
TryReadFails(map) ==
    IF map = "chunk_states" THEN Busy("chunk_states.write")
    ELSE Busy("mesh_states.write")
TryLockFails(mutex) == Busy(mutex)

\* Some task may hold the mutex of the entry of coordinate p.
EntryBusy(p) ==
    \E t \in BagToSet(tasks) : t.pos = p /\ "chunk_states.entry" \in LockedNext(t)

\* The `else { return; }` of a failed try-acquisition alone, with the queue
\* drained before the return.
SkippedRun_Drains(rev, system, fails) ==
    /\ revision = rev
    /\ fails
    /\ skipped' = system
    /\ UNCHANGED calls
    /\ remesh' = {}
    /\ UNCHANGED << revision, contents, World, camera, chunk_grid, chunk_states,
                    chunk_entities, removed, mesh_states, tasks,
                    cleanup_tasks, files, epoch, held_evictions, live_entities,
                    entity_mesh >>

\* `let Ok(..) = ...try_write() else { return; }`: the system returns at the
\* failed acquisition, before its first write.
SkippedRun(rev, system, fails) ==
    /\ revision = rev
    /\ fails
    /\ skipped' = system
    /\ UNCHANGED calls
    /\ UNCHANGED << revision, contents, World, camera, chunk_grid, chunk_states,
                    chunk_entities, removed, remesh, mesh_states, tasks,
                    cleanup_tasks, files, epoch, held_evictions, live_entities,
                    entity_mesh >>

\* level.rs:122-128
generate_nearby_chunks_contended ==
    SkippedRun("level.rs", "generate_nearby_chunks",
               TryWriteFails("chunk_states") \/ TryLockFails("chunk_grid"))

\* level.rs:201-208: the map's try_read fails, or the mutex of every entry
\* that is Generated is busy and the entry is passed over.
build_chunk_meshes_contended ==
    LET busy == { p \in World : chunk_states[p] # NoEntry /\ EntryBusy(p) }
    IN SkippedRun("level.rs", "build_chunk_meshes",
                  \/ TryReadFails("chunk_states")
                  \/ /\ busy # {}
                     /\ \A p \in World \ busy : chunk_states[p].tag # "Generated")

\* level.rs:281-287
update_chunk_entities_contended ==
    SkippedRun("level.rs", "update_chunk_entities",
               TryWriteFails("chunk_states") \/ TryLockFails("chunk_entities"))

\* level.rs:334-341
discard_far_chunks_contended ==
    SkippedRun("level.rs", "discard_far_chunks",
               TryWriteFails("chunk_states") \/ TryLockFails("chunk_grid"))

\* level.rs:425-427
level_rs_cleanup_saved_chunks_contended ==
    SkippedRun("level.rs", "cleanup_saved_chunks", TryWriteFails("chunk_states"))

\* level/mod.rs:139-141
mark_nearby_chunks_uninitialized_contended ==
    SkippedRun("level/mod.rs", "mark_nearby_chunks_uninitialized",
               TryWriteFails("chunk_states"))

\* level/mod.rs:225-227
finalize_chunk_generation_contended ==
    SkippedRun("level/mod.rs", "finalize_chunk_generation",
               TryWriteFails("chunk_states"))

\* level/mod.rs:260-263
handle_remesh_queue_contended ==
    SkippedRun("level/mod.rs", "handle_remesh_queue", TryWriteFails("mesh_states"))

\* level/mod.rs:310-312
apply_ready_meshes_contended ==
    SkippedRun("level/mod.rs", "apply_ready_meshes", TryWriteFails("mesh_states"))

\* level/mod.rs:458-460
cleanup_saved_chunks_contended ==
    SkippedRun("level/mod.rs", "cleanup_saved_chunks", TryWriteFails("chunk_states"))

NextContended ==
    \/ Next
    \/ generate_nearby_chunks_contended
    \/ build_chunk_meshes_contended
    \/ update_chunk_entities_contended
    \/ discard_far_chunks_contended
    \/ level_rs_cleanup_saved_chunks_contended
    \/ mark_nearby_chunks_uninitialized_contended
    \/ finalize_chunk_generation_contended
    \/ handle_remesh_queue_contended
    \/ apply_ready_meshes_contended
    \/ cleanup_saved_chunks_contended

\* A failed acquisition does not depend on the coordinate: the runs with
\* contention follow the coordinate whose chunk has blocks.
InitContended == Init /\ World = { <<0, 0, 0>> }

SpecContended == InitContended /\ [][NextContended]_vars

(***************************************************************************)
(* Fair scheduling: every coordinator system runs on every tick and the    *)
(* task pools run every detached task (level.rs:45-58, level/mod.rs:45-57).*)
(* build_mesh reads finitely many cells (chunk/mesh.rs:24-33), so a mesh    *)
(* task that keeps reading comes to its last cell: strong fairness there.  *)
(* A tick runs the eviction scan for the camera chunk of that tick, so a    *)
(* scan that has work in infinitely many ticks runs: strong fairness too.   *)
(***************************************************************************)
Fairness ==
    /\ WF_vars(generate_nearby_chunks)
    /\ WF_vars(build_chunk_meshes)
    /\ WF_vars(update_chunk_entities)
    /\ SF_vars(discard_far_chunks)
    /\ WF_vars(level_rs_cleanup_saved_chunks)
    /\ WF_vars(\E t \in BagToSet(tasks) : generate_chunk_start(t))
    /\ WF_vars(\E t \in BagToSet(tasks) : generate_chunk_insert(t))
    /\ WF_vars(\E t \in BagToSet(tasks) : generate_chunk_handoff(t))
    /\ WF_vars(\E t \in BagToSet(tasks) : build_chunk_mesh_start(t))
    /\ WF_vars(\E t \in BagToSet(tasks) : build_chunk_mesh_build(t))
    /\ WF_vars(\E t \in BagToSet(tasks) : build_chunk_mesh_handoff(t))
    /\ WF_vars(\E t \in BagToSet(tasks) : level_rs_save_chunk_grid(t))
    /\ WF_vars(\E t \in BagToSet(tasks) : level_rs_save_chunk_entity(t))
    /\ WF_vars(\E t \in BagToSet(tasks) : level_rs_save_chunk_state(t))
    /\ WF_vars(mark_nearby_chunks_uninitialized)
    /\ WF_vars(finalize_chunk_generation)
    /\ WF_vars(handle_remesh_queue)
    /\ WF_vars(apply_ready_meshes)
    /\ SF_vars(remove_far_chunks)
    /\ WF_vars(cleanup_saved_chunks)
    /\ WF_vars(\E t \in BagToSet(tasks) : create_chunk_load(t))
    /\ WF_vars(\E t \in BagToSet(tasks) : create_chunk_handoff(t))
    /\ WF_vars(\E t \in BagToSet(tasks) : remesh_chunk_upgrade(t))
    /\ SF_vars(\E t \in BagToSet(tasks) : remesh_chunk_built(t))
    /\ WF_vars(\E t \in BagToSet(tasks) : remesh_chunk_handoff(t))
    /\ WF_vars(\E t \in BagToSet(tasks) : save_chunk_mesh_states(t))
    /\ WF_vars(\E t \in BagToSet(tasks) : save_chunk_chunk_states(t))
    /\ WF_vars(\E t \in BagToSet(tasks) : save_chunk_write(t))
    /\ WF_vars(\E batch \in BagToSet(cleanup_tasks) : mesh_states_cleanup(batch))

FairSpec == Spec /\ Fairness

\* The part of fair scheduling an eviction under way depends on: the save
\* tasks and the two cleanup systems.
EvictionFairness ==
    /\ WF_vars(level_rs_cleanup_saved_chunks)
    /\ WF_vars(\E t \in BagToSet(tasks) : level_rs_save_chunk_grid(t))
    /\ WF_vars(\E t \in BagToSet(tasks) : level_rs_save_chunk_entity(t))
    /\ WF_vars(\E t \in BagToSet(tasks) : level_rs_save_chunk_state(t))
    /\ WF_vars(cleanup_saved_chunks)
    /\ WF_vars(\E t \in BagToSet(tasks) : save_chunk_mesh_states(t))
    /\ WF_vars(\E t \in BagToSet(tasks) : save_chunk_chunk_states(t))

FairEvictionSpec == Spec /\ EvictionFairness

\* The part of fair scheduling the eviction of an out-of-range chunk depends
\* on: what brings its tracked state to one discard_far_chunks accepts, what
\* makes a mesh task let go of it, the eviction systems and the save tasks.
SettleFairness ==
    /\ EvictionFairness
    /\ WF_vars(build_chunk_meshes)
    /\ WF_vars(update_chunk_entities)
    /\ WF_vars(discard_far_chunks)
    /\ WF_vars(\E t \in BagToSet(tasks) : build_chunk_mesh_start(t))
    /\ WF_vars(remove_far_chunks)
    /\ SF_vars(\E t \in BagToSet(tasks) : remesh_chunk_built(t))

FairSettleSpec == Spec /\ SettleFairness

(***************************************************************************)
(* Direct block edits (main.rs).  The Level of main.rs offers rebuild_mesh *)
(* and chunks behind an RwLock; of the level modules at hand level/mod.rs  *)
(* is the one with a re-mesh queue, and the edits run against it.          *)
(***************************************************************************)
\* Level::rebuild_mesh is not among the sources; spec.md, Concurrency: a
\* direct edit "must still enqueue a re-mesh for the affected chunk".
rebuild_mesh(chunk_position) == remesh \cup { chunk_position }

\* main.rs:400-495: the ray ends in a chunk of the grid, one block of it is
\* placed or removed under chunk.write(), and the mesh of that chunk is asked
\* to be rebuilt.
handle_debug_input ==
    /\ revision = "level/mod.rs"
    /\ \E chunk_position \in World :
         /\ chunk_grid[chunk_position] # NONE
         /\ contents[chunk_position] < MaxEdits
         /\ contents' = [contents EXCEPT ![chunk_position] = @ + 1]
         /\ remesh' = rebuild_mesh(chunk_position)
    /\ skipped' = "none"
    /\ UNCHANGED calls
    /\ UNCHANGED << revision, World, camera, chunk_grid, chunk_states,
                    chunk_entities, removed, mesh_states, tasks, cleanup_tasks,
                    files, epoch, held_evictions, live_entities, entity_mesh >>

NextEdits == NextLevelMod \/ handle_debug_input

\* The edits are followed on the coordinate whose chunk has blocks.
InitEdits == InitLevelMod /\ World = { <<0, 0, 0>> }

SpecEdits == InitEdits /\ [][NextEdits]_vars

FairSpecEdits == SpecEdits /\ Fairness

(***************************************************************************)
(* Properties                                                              *)
(***************************************************************************)

\* Every coordinate a run may follow.
AllCoordinates == UNION Worlds

\* Tasks of one async fn for one coordinate that stand at one of `pcs`.
TasksIn(kind, p, pcs) ==
    CountIn(tasks, { t \in BagToSet(tasks) :
                       t.kind = kind /\ t.pos = p /\ t.pc \in pcs })

\* C1: in level.rs at most one task performs Uninitialized -> Generating for
\* one tracking entry, and at no time are two generate_chunk tasks in the
\* Generating phase (between their write of Generating and their hand-off)
\* for one coordinate.
C1_OneGeneratingTask ==
    \A p \in World :
        /\ chunk_states[p].gens <= 1
        /\ TasksIn("generate_chunk", p, { "generating", "inserted" }) <= 1

\* C2: in level.rs at most one build_chunk_mesh task performs
\* Generated -> MeshBuilding for one tracking entry, and at no time are two
\* tasks in the MeshBuilding phase (between their write of MeshBuilding and
\* their hand-off) for one coordinate.
C2_OneMeshBuildingTask ==
    \A p \in World :
        /\ chunk_states[p].builds <= 1
        /\ TasksIn("build_chunk_mesh", p, { "building", "built" }) <= 1

\* C3: a result is committed at a hand-off only into the epoch its task was
\* spawned in: the payload of every entry of the state maps was written by a
\* task of the entry's own epoch.
C3_NoStaleCommit ==
    \A p \in World :
        /\ chunk_states[p].by \in { 0, chunk_states[p].ep }
        /\ mesh_states[p].by \in { 0, mesh_states[p].ep }

\* The step in which task t ends at program counter pc.
EndsAt(t, kind, pc) ==
    t.kind = kind /\ t.pc = pc /\ tasks' = Finish(tasks, t)

\* C4: the hand-off of a generation task writes Generated (level.rs) or Ready
\* with the task's chunk (level/mod.rs) when the entry is present and in the
\* state the task expects, and otherwise leaves the state map unchanged.
C4_StaleGenerationHandoffIsNoOp ==
    [][ \A t \in BagToSet(tasks) :
          /\ EndsAt(t, "generate_chunk", "inserted") =>
               IF chunk_states[t.pos].tag = "Generating"
               THEN chunk_states' =
                      [chunk_states EXCEPT ![t.pos].tag = "Generated", ![t.pos].by = t.ep]
               ELSE chunk_states' = chunk_states
          /\ EndsAt(t, "create_chunk", "loaded") =>
               IF chunk_states[t.pos].tag = "Uninitialized"
               THEN chunk_states' =
                      [chunk_states EXCEPT ![t.pos].tag = "Ready",
                                           ![t.pos].val = t.chunk, ![t.pos].by = t.ep]
               ELSE chunk_states' = chunk_states ]_vars

\* C4, its case: a generation task stands at its hand-off and the entry of its
\* coordinate is missing or not in the state the task expects.
C4_StaleGenerationAtHandoff ==
    \E t \in BagToSet(tasks) :
        /\ t.kind = "generate_chunk" /\ t.pc = "inserted"
        /\ chunk_states[t.pos].tag # "Generating"

LifecycleChain ==
    { << "NoEntry", "Uninitialized" >>, << "Uninitialized", "Generating" >>,
      << "Generating", "Generated" >>, << "Generated", "MeshBuilding" >>,
      << "MeshBuilding", "MeshReady" >>, << "MeshReady", "NoEntry" >>,
      << "Saving", "Saved" >>, << "Saved", "NoEntry" >> }
        \cup { << tag, "Saving" >> : tag \in ChunkLoadState \cup { "NoEntry" } }

C7_NoEvictionInFlight ==
    [][ \A p \in World :
          chunk_states[p].tag \in { "Generating", "MeshBuilding" } =>
              chunk_states'[p].tag # "Saving" ]_vars

\* C8: when remove_far_chunks extracts an out-of-range chunk that a worker
\* still holds strongly, the same chunk is back in the grid under the same
\* coordinate, the coordinate is not marked pending eviction, no save task is
\* spawned, its queued re-mesh request is kept, and the chunk is still an
\* out-of-range chunk of the grid for the next tick to extract again.
C8_HeldEvictionIsRolledBack ==
    [][ \A p \in World :
          held_evictions'[p] # held_evictions[p] =>
              /\ chunk_grid[p] # NONE
              /\ chunk_grid'[p] = chunk_grid[p]
              /\ p \notin removed'
              /\ p \in remesh => p \in remesh'
              /\ \A t \in BagToSet(tasks') :
                    t.kind = "save_chunk" /\ t.pos = p =>
                        CopiesIn(t, tasks') = CopiesIn(t, tasks)
              /\ ~InRange(p, camera') ]_vars

\* C8, its case: an eviction was rolled back, attempted again on a later
\* tick, and has then gone through.
C8_RolledBackThenEvicted ==
    \E p \in World : held_evictions[p] >= 1 /\ p \in removed

\* C9: a coordinate's state is Removed only after its chunk has left the grid
\* and its save task has written the chunk file, and no create_chunk task
\* re-loads a coordinate while a save task of it has still to write.
C9_RemovedOnlyAfterPersisted ==
    \A p \in World :
        LET saving == TasksIn("save_chunk", p, { "start", "mesh_removed", "marked" })
        IN /\ chunk_states[p].tag = "Removed" =>
                chunk_grid[p] = NONE /\ saving = 0
           /\ TasksIn("create_chunk", p, { "start", "loaded" }) > 0 => saving = 0

\* An eviction of p has started: a save task was spawned for it.
EvictionStarted(p) ==
    /\ p \in World
    /\ \/ revision = "level.rs" /\ chunk_states[p].tag = "Saving"
       \/ revision = "level/mod.rs" /\ p \in removed

\* The eviction of p is settled: no tracking entry, no pending-eviction mark,
\* no render entity left.
EvictionSettled(p) ==
    /\ p \in World
    /\ chunk_states[p] = NoEntry
    /\ p \notin removed
    /\ ~chunk_entities[p]
    /\ live_entities[p] = 0

\* C10: under fair scheduling every coordinate whose eviction has started
\* eventually has its tracking entry deleted, its pending-eviction mark
\* cleared and its render entity, if it has one, despawned.
C10_EvictionCompletes ==
    \A p \in AllCoordinates : EvictionStarted(p) ~> EvictionSettled(p)

\* C10, its case: a coordinate that had its render entity is pending
\* eviction.
C10_EvictionOfEntityStarted ==
    \E p \in World : EvictionStarted(p) /\ live_entities[p] > 0

\* The in-range window: |coordinate - viewpoint chunk| <= (h, v, h), both
\* bounds included.
InWindow(p, viewpoint) ==
    /\ viewpoint[1] - horizontal_render_distance <= p[1]
    /\ p[1] <= viewpoint[1] + horizontal_render_distance
    /\ viewpoint[2] - vertical_render_distance <= p[2]
    /\ p[2] <= viewpoint[2] + vertical_render_distance
    /\ viewpoint[3] - horizontal_render_distance <= p[3]
    /\ p[3] <= viewpoint[3] + horizontal_render_distance

\* The coordinate the run follows (every set of Worlds has one).
Followed == CHOOSE p \in World : TRUE

\* p has a chunk and lies outside the window.
FarChunk(p) == chunk_grid[p] # NONE /\ ~InWindow(p, camera)

\* p is evicted: out of the grid, and its eviction settled.
Evicted(p) == chunk_grid[p] = NONE /\ EvictionSettled(p)

\* C11: under fair scheduling every coordinate that has a chunk and lies
\* outside the window is eventually evicted (chunk out of the grid, tracking
\* entry deleted, render entity despawned) unless the viewpoint brings it
\* back into the window; and while the viewpoint keeps a chunk inside the
\* window and no eviction of it is under way, the chunk stays in the grid,
\* its render entity stays, and once it is settled its mesh stays the same.
C11_ShrunkWindowSettles ==
    /\ FarChunk(Followed) ~> (Evicted(Followed) \/ InWindow(Followed, camera))
    /\ [][ \A p \in World :
             ( /\ chunk_grid[p] # NONE
               /\ InWindow(p, camera) /\ InWindow(p, camera')
               /\ chunk_states[p].tag # "Saving" ) =>
                 /\ chunk_grid'[p] = chunk_grid[p]
                 /\ chunk_entities[p] => chunk_entities'[p]
                 /\ ( /\ chunk_entities[p]
                      /\ chunk_states[p] = NoEntry
                      /\ mesh_states[p] = NoEntry
                      /\ p \notin remesh ) =>
                        entity_mesh'[p] = entity_mesh[p] ]_vars

\* C11, its case: a coordinate that was tracked lies outside the window and
\* is evicted, and (level/mod.rs) its chunk is persisted.
C11_FarChunkEvicted ==
    \E p \in World :
        /\ ~InWindow(p, camera)
        /\ epoch[p] >= 1
        /\ Evicted(p)
        /\ revision = "level/mod.rs" => files[p] # NONE

\* A step of a worker task: a task in flight moved on or ended (the
\* coordinator systems only add tasks).
WorkerStep ==
    \E t \in BagToSet(tasks) : CopiesIn(t, tasks') < CopiesIn(t, tasks)

\* C12: a chunk enters the grid only in a step of the coordinator, never in a
\* step of a worker task, and no coordinate has a chunk in the grid while its
\* lifecycle state is Uninitialized or Generating.
C12_GridWrittenAtHandoffOnly ==
    /\ [](\A p \in World :
            chunk_grid[p] # NONE =>
                chunk_states[p].tag \notin { "Uninitialized", "Generating" })
    /\ [][ (\E p \in World :
              chunk_grid'[p] # chunk_grid[p] /\ chunk_grid'[p] # NONE)
           => ~WorkerStep ]_vars

\* Generation tasks in flight for p, of either revision.
GenerationTasks(p) ==
    TasksIn("generate_chunk", p, { "start", "generating", "inserted" })
        + TasksIn("create_chunk", p, { "start", "loaded" })

\* C13: a chunk of the grid is never replaced by another chunk of the same
\* coordinate, and no generation task is in flight for a coordinate that has
\* a chunk in the grid.
C13_OneChunkPerCoordinate ==
    /\ [](\A p \in World : chunk_grid[p] # NONE => GenerationTasks(p) = 0)
    /\ [][ \A p \in World :
             chunk_grid[p] # NONE /\ chunk_grid'[p] # NONE =>
                 chunk_grid'[p] = chunk_grid[p] ]_vars

\* The coordinates a window scan is to mark: inside the inclusive window, not
\* in the grid, not tracked, not pending eviction.
ToBeMarked ==
    { p \in World :
        /\ InWindow(p, camera)
        /\ chunk_grid[p] = NONE
        /\ chunk_states[p] = NoEntry
        /\ p \notin removed }

\* C14: the coordinates a window scan marks are exactly those inside the
\* inclusive window that are not in the grid, not tracked and not pending
\* eviction; every newly tracked coordinate is one of them, is Uninitialized
\* and gets one generation task.
C14_ScanMarksInclusiveWindow ==
    /\ [](IF revision = "level.rs"
          THEN FreshForGenerate = ToBeMarked
          ELSE FreshForCreate = ToBeMarked)
    /\ [][ \A p \in World :
             epoch'[p] # epoch[p] =>
                 /\ p \in ToBeMarked
                 /\ chunk_states'[p].tag = "Uninitialized"
                 /\ GenerationTasks(p)' = GenerationTasks(p) + 1 ]_vars

\* C15: at any time at most one remesh_chunk task is in flight for one
\* coordinate.
C15_OneRemeshTask ==
    \A p \in World :
        TasksIn("remesh_chunk", p, { "start", "reading", "built" }) <= 1

\* C19: a render entity is spawned only with a non-empty mesh and only for a
\* coordinate that has none, a result applied to a coordinate with an entity
\* keeps that entity, and no coordinate ever has two render entities.
C19_EntityOnFirstNonEmptyMesh ==
    /\ [](\A p \in World : live_entities[p] <= 1)
    /\ [][ \A p \in World :
             /\ live_entities'[p] > live_entities[p] =>
                  /\ ~chunk_entities[p]
                  /\ entity_mesh'[p] # NONE
             /\ chunk_entities[p] /\ entity_mesh'[p] # entity_mesh[p]
                  /\ chunk_entities'[p] =>
                  live_entities'[p] = live_entities[p] ]_vars

\* p is loaded and settled: its chunk is in the grid, a mesh result has been
\* applied to its render entity, and it has no entry in the state maps.
Loaded(p) ==
    /\ chunk_grid[p] # NONE
    /\ chunk_entities[p]
    /\ chunk_states[p] = NoEntry
    /\ mesh_states[p] = NoEntry

\* C18: under fair scheduling, while the viewpoint keeps a coordinate inside
\* the window (and the coordinate may still be tracked anew), the coordinate
\* eventually has its chunk in the grid, a mesh result applied and no entry
\* left in the generation and mesh state maps.
C18_InWindowSettles ==
    (InWindow(Followed, camera) /\ epoch[Followed] < MaxEpoch)
        ~> (Loaded(Followed) \/ ~InWindow(Followed, camera))

\* A mesh task is about to find its chunk gone: build_chunk_mesh finds no
\* grid entry, build_mesh cannot upgrade its weak reference.
FindsChunkGone(t) ==
    \/ t.kind = "build_chunk_mesh" /\ t.pc = "building" /\ chunk_grid[t.pos] = NONE
    \/ t.kind = "remesh_chunk" /\ t.pc = "start" /\ ~Alive(t.pos, t.chunk)

\* C20: a mesh task that finds its chunk gone ends without a change to the
\* state maps, the grid and the render entities, and under fair scheduling
\* its coordinate does not stay in the state the mesh task was to leave
\* (MeshBuilding, Unmeshed) forever.
C20_MissingChunkEndsSilently ==
    /\ [][ \A t \in BagToSet(tasks) :
             FindsChunkGone(t) /\ tasks' = Finish(tasks, t) =>
                 UNCHANGED << chunk_states, mesh_states, chunk_grid, chunk_entities,
                              live_entities, entity_mesh, removed, remesh >> ]_vars
    /\ (\E t \in BagToSet(tasks) : FindsChunkGone(t))
          ~> ( /\ chunk_states[Followed].tag # "MeshBuilding"
               /\ mesh_states[Followed].tag # "Unmeshed" )

\* The mesh applied to the entity of p was built from the contents after the
\* last edit of p.
PostEditApplied(p) ==
    /\ chunk_entities[p]
    /\ entity_mesh[p] # NONE
    /\ SeenEdits(entity_mesh[p]) = contents[p]

\* C16: a direct block edit of a chunk in the grid enqueues a re-mesh of the
\* chunk, and under fair scheduling a mesh built from the contents after the
\* edit is eventually applied to the chunk's entity, unless the chunk leaves
\* the window.
C16_EditIsRemeshed ==
    /\ [][\A p \in World : contents'[p] # contents[p] => p \in remesh']_vars
    /\ (/\ chunk_grid[Followed] # NONE
        /\ contents[Followed] > 0
        /\ InWindow(Followed, camera))
          ~> (PostEditApplied(Followed) \/ ~InWindow(Followed, camera))

\* C17: a coordinator system that returns at a failed try-acquisition (of a
\* map, or of the mutex of the only entry it would have handled) changes
\* nothing: no coordinate is marked, the re-mesh queue keeps its entries, no
\* result is taken, no task is spawned and no entity is touched, so the same
\* work is pending on the next tick.
C17_ContendedRunChangesNothing ==
    [][skipped' # "none" =>
         UNCHANGED << revision, contents, World, camera, chunk_grid, chunk_states,
                      chunk_entities, removed, remesh, mesh_states, tasks,
                      cleanup_tasks, files, epoch, held_evictions,
                      live_entities, entity_mesh >>]_vars

\* handle_remesh_queue has returned at its try_write while the queue held a
\* coordinate, and the queue still holds it.
C17_QueueKeptAfterSkip ==
    /\ skipped = "handle_remesh_queue"
    /\ remesh # {}
    /\ TryWriteFails("mesh_states")

(***************************************************************************)
(* Coordinates and indices (chunk.rs and its successor chunk/mod.rs).      *)
(* The runs of this part leave the level alone: Init draws the arguments,  *)
(* an action applies one function to them and records what it returned.    *)
(***************************************************************************)
\* chunk.rs:16-19 and chunk/mod.rs:19-20.
CHUNK_SIZE_I16 == 32
SIZE_I16 == 32
\* SIZE_I16 * SIZE_I16
Z_INDEX_I16 == 1024
\* SIZE_USIZE * SIZE_USIZE * SIZE_USIZE
CONTENTS_SIZE == 32768

\* i16::MAX, and the wrap of two's complement arithmetic in 16 bits.
I16_MAX == 32767
FitsI16(n) == n >= -I16_MAX - 1 /\ n <= I16_MAX
WrapI16(n) == ((n + I16_MAX + 1) % (2 * (I16_MAX + 1))) - (I16_MAX + 1)

\* `as usize` of an i16: a negative value becomes 2^64 + n, far beyond every
\* array; 2^64 is written UsizeTop here.
UsizeTop == 1073741824
AsUsize(n) == IF n >= 0 THEN n ELSE UsizeTop + n

\* `as f32` of an i32: round to nearest, ties to even, with a significand of
\* 24 bits.  The floats met here are whole numbers and are kept as integers.
RECURSIVE F32Spacing(_)
F32Spacing(magnitude) ==
    IF magnitude < 16777216 THEN 1 ELSE 2 * F32Spacing(magnitude \div 2)

AsF32(n) ==
    LET magnitude == Abs(n)
        spacing == F32Spacing(magnitude)
        quotient == magnitude \div spacing
        rest == magnitude % spacing
        up == 2 * rest > spacing \/ (2 * rest = spacing /\ quotient % 2 = 1)
        rounded == IF up THEN (quotient + 1) * spacing ELSE quotient * spacing
    IN IF n < 0 THEN 0 - rounded ELSE rounded

\* Rust's % on i32: the remainder has the sign of the dividend.
RustRem(a, b) == IF a < 0 THEN 0 - ((0 - a) % b) ELSE a % b
\* Rust's / on non-negative integers.
RustDiv(a, b) == a \div b

\* chunk.rs:28-30 (chunk/mod.rs:34-36): floor(raw / 32.0) as i32; the
\* division by a power of two is exact.
to_chunk_coord(raw_coordinate) == raw_coordinate \div CHUNK_SIZE_I16

\* chunk.rs:40-46
to_chunk_coordinates_from_ivec3(raw_coordinates) ==
    << to_chunk_coord(AsF32(raw_coordinates[1])),
       to_chunk_coord(AsF32(raw_coordinates[2])),
       to_chunk_coord(AsF32(raw_coordinates[3])) >>

\* chunk.rs:163-169 (chunk/mod.rs:102-108)
to_block_coord(raw_coordinate) ==
    LET block_coord == RustRem(raw_coordinate, CHUNK_SIZE_I16)
    IN IF block_coord >= 0 THEN block_coord ELSE block_coord + CHUNK_SIZE_I16

\* chunk.rs:171-177 (chunk/mod.rs:110-116)
to_block_coordinates(raw_coordinates) ==
    << to_block_coord(raw_coordinates[1]),
       to_block_coord(raw_coordinates[2]),
       to_block_coord(raw_coordinates[3]) >>

\* Option::None of the conversions, and a panic of the thread (an index is
\* never negative).
INVALID == -1
PANIC == -2

\* The inverse of an index with z varying fastest.
BlockGrid_to_block_coordinates_from_index_ZFastest(index) ==
    IF ~FitsI16(index) \/ index < 0 THEN INVALID
    ELSE << RustDiv(index, CHUNK_SIZE_I16 * CHUNK_SIZE_I16),
            RustRem(RustDiv(index, CHUNK_SIZE_I16), CHUNK_SIZE_I16),
            RustRem(index, CHUNK_SIZE_I16) >>

\* chunk.rs:179-189: i16::try_from(index) fails above i16::MAX.
BlockGrid_to_block_coordinates_from_index(index) ==
    IF ~FitsI16(index) \/ index < 0 THEN INVALID
    ELSE << RustRem(index, CHUNK_SIZE_I16),
            RustRem(RustDiv(index, CHUNK_SIZE_I16), CHUNK_SIZE_I16),
            RustDiv(index, CHUNK_SIZE_I16 * CHUNK_SIZE_I16) >>

\* chunk/mod.rs:118-125
Chunk_to_block_coordinates_from_index(index) ==
    IF ~FitsI16(index) THEN INVALID
    ELSE << RustRem(index, SIZE_I16),
            RustRem(RustDiv(index, SIZE_I16), SIZE_I16),
            RustDiv(index, Z_INDEX_I16) >>

\* The index expression of a chunk 64 blocks wide.
BlockGrid_index_steps_Size64(c) ==
    << c[2] * 64,
       c[1] + c[2] * 64,
       c[3] * 64,
       c[3] * 64 * 64,
       c[1] + c[2] * 64 + c[3] * 64 * 64 >>

\* chunk.rs:201-205: the values of the index expression in the order they
\* are computed, before any wrap: y * 32, x + y * 32, z * 32, z * 32 * 32
\* and the sum.
BlockGrid_index_steps(c) ==
    << c[2] * CHUNK_SIZE_I16,
       c[1] + c[2] * CHUNK_SIZE_I16,
       c[3] * CHUNK_SIZE_I16,
       c[3] * CHUNK_SIZE_I16 * CHUNK_SIZE_I16,
       c[1] + c[2] * CHUNK_SIZE_I16 + c[3] * CHUNK_SIZE_I16 * CHUNK_SIZE_I16 >>

\* chunk/mod.rs:128: y * 32, x + y * 32, z * 1024 and the sum.
Chunk_index_steps(position) ==
    << position[2] * SIZE_I16,
       position[1] + position[2] * SIZE_I16,
       position[3] * Z_INDEX_I16,
       position[1] + position[2] * SIZE_I16 + position[3] * Z_INDEX_I16 >>

Overflows(steps) == \E k \in 1..Len(steps) : ~FitsI16(steps[k])

\* chunk.rs:191-206
BlockGrid_to_index(block_coordinates) ==
    IF \E k \in 1..3 :
         block_coordinates[k] < 0 \/ block_coordinates[k] >= CHUNK_SIZE_I16
    THEN INVALID
    ELSE AsUsize(BlockGrid_index_steps(block_coordinates)[5])

\* chunk/mod.rs:127-129: no check of the range; an overflow of the i16
\* arithmetic panics with overflow checks and wraps without.
Chunk_to_index(position, overflow_checks) ==
    IF Overflows(Chunk_index_steps(position))
    THEN IF overflow_checks THEN PANIC
         ELSE AsUsize(WrapI16(WrapI16(position[1] + WrapI16(position[2] * SIZE_I16))
                              + WrapI16(position[3] * Z_INDEX_I16)))
    ELSE AsUsize(Chunk_index_steps(position)[4])

\* The level of the runs that study a function: nothing loaded, nothing due.
LevelIdle ==
    /\ setup_level
    /\ revision = "level/mod.rs"
    /\ World = { <<0, 0, 0>> }
    /\ camera = <<0, 0, 0>>

(* ------------------------------------------------- world -> chunk, block *)
\* World coordinates of one axis: around the origin and the first chunk
\* borders, and two far ones beyond 2^24 blocks.
FarCoordinate == 16777247
WorldAxis == { -33, -32, -31, -1, 0, 1, 31, 32, 33, FarCoordinate, -16777217 }
NearAxis == { p \in WorldAxis : Abs(p) < 16777216 }

InitCoordinates ==
    /\ LevelIdle
    /\ input \in WorldAxis \X WorldAxis \X WorldAxis
    /\ call = NoCall

call_to_chunk_coordinates_from_ivec3 ==
    /\ call' = [op |-> "to_chunk_coordinates_from_ivec3",
                ret |-> to_chunk_coordinates_from_ivec3(input)]
    /\ UNCHANGED << input, level_vars >>

call_to_block_coordinates ==
    /\ call' = [op |-> "to_block_coordinates", ret |-> to_block_coordinates(input)]
    /\ UNCHANGED << input, level_vars >>

NextCoordinates ==
    \/ call_to_chunk_coordinates_from_ivec3
    \/ call_to_block_coordinates

SpecCoordinates == InitCoordinates /\ [][NextCoordinates]_vars

\* C25: on every axis the block coordinate of an integer world coordinate p
\* lies in [0, 32) and chunk coordinate * 32 + block coordinate = p, for
\* positive, zero and negative p (floor division and Euclidean remainder).
C25_ChunkAndBlockRebuildPosition ==
    /\ call.op = "to_block_coordinates" =>
         \A k \in 1..3 : call.ret[k] >= 0 /\ call.ret[k] < CHUNK_SIZE_I16
    /\ call.op = "to_chunk_coordinates_from_ivec3" =>
         \A k \in 1..3 :
            call.ret[k] * CHUNK_SIZE_I16 + to_block_coord(input[k]) = input[k]

(* ------------------------------------------------ coordinate <-> index *)
\* Block coordinates of one axis: the valid ones and one beyond each end;
\* indices: the valid ones and some beyond the last cell.
CoordinateAxis == -1..CHUNK_SIZE_I16
Indices == 0..(CONTENTS_SIZE + 2)
ValidCoordinate(c) == \A k \in 1..3 : c[k] >= 0 /\ c[k] < CHUNK_SIZE_I16
ValidIndex(i) == i >= 0 /\ i < CONTENTS_SIZE

InitIndexing ==
    /\ LevelIdle
    /\ \/ \E c \in CoordinateAxis \X CoordinateAxis \X CoordinateAxis :
            input = [kind |-> "coordinate", value |-> c]
       \/ \E i \in Indices : input = [kind |-> "index", value |-> i]
    /\ call = NoCall

call_BlockGrid_to_index ==
    /\ input.kind = "coordinate"
    /\ call' = [op |-> "BlockGrid::to_index",
                steps |-> IF ValidCoordinate(input.value)
                          THEN BlockGrid_index_steps(input.value) ELSE << >>,
                ret |-> BlockGrid_to_index(input.value)]
    /\ UNCHANGED << input, level_vars >>

call_Chunk_to_index ==
    /\ input.kind = "coordinate"
    /\ \E overflow_checks \in BOOLEAN :
         call' = [op |-> "Chunk::to_index",
                  steps |-> Chunk_index_steps(input.value),
                  ret |-> Chunk_to_index(input.value, overflow_checks)]
    /\ UNCHANGED << input, level_vars >>

call_BlockGrid_to_block_coordinates_from_index ==
    /\ input.kind = "index"
    /\ call' = [op |-> "BlockGrid::to_block_coordinates_from_index",
                ret |-> BlockGrid_to_block_coordinates_from_index(input.value)]
    /\ UNCHANGED << input, level_vars >>

call_Chunk_to_block_coordinates_from_index ==
    /\ input.kind = "index"
    /\ call' = [op |-> "Chunk::to_block_coordinates_from_index",
                ret |-> Chunk_to_block_coordinates_from_index(input.value)]
    /\ UNCHANGED << input, level_vars >>

NextIndexing ==
    \/ call_BlockGrid_to_index
    \/ call_Chunk_to_index
    \/ call_BlockGrid_to_block_coordinates_from_index
    \/ call_Chunk_to_block_coordinates_from_index

SpecIndexing == InitIndexing /\ [][NextIndexing]_vars

ToIndexCalled == call.op \in { "BlockGrid::to_index", "Chunk::to_index" }
FromIndexCalled ==
    call.op \in { "BlockGrid::to_block_coordinates_from_index",
                  "Chunk::to_block_coordinates_from_index" }

\* C26: a valid block coordinate goes to the index x + y*32 + z*32*32 and
\* back to itself, and a valid index goes to a coordinate and back to itself.
C26_IndexRoundTrip ==
    /\ (ToIndexCalled /\ ValidCoordinate(input.value)) =>
         /\ call.ret = input.value[1] + input.value[2] * 32 + input.value[3] * 32 * 32
         /\ BlockGrid_to_block_coordinates_from_index(call.ret) = input.value
         /\ Chunk_to_block_coordinates_from_index(call.ret) = input.value
    /\ (FromIndexCalled /\ ValidIndex(input.value)) =>
         /\ ValidCoordinate(call.ret)
         /\ BlockGrid_to_index(call.ret) = input.value
         /\ \A overflow_checks \in BOOLEAN :
              Chunk_to_index(call.ret, overflow_checks) = input.value

\* The last cell has gone to the last index, and the last index to the last
\* cell.
C26_LastCellRoundTrip ==
    \/ ToIndexCalled /\ input.value = <<31, 31, 31>> /\ call.ret = CONTENTS_SIZE - 1
    \/ FromIndexCalled /\ input.value = CONTENTS_SIZE - 1 /\ call.ret = <<31, 31, 31>>

\* C27: a block coordinate with a component outside [0, 32), and an index
\* outside [0, 32^3), are answered with None in both directions and never
\* with an index or a coordinate.
C27_OutOfRangeIsInvalid ==
    /\ (ToIndexCalled /\ ~ValidCoordinate(input.value)) => call.ret = INVALID
    /\ (FromIndexCalled /\ ~ValidIndex(input.value)) => call.ret = INVALID

\* C28: for a valid block coordinate every value of the 16-bit index
\* expression, the result included, lies in [0, 32767], below the number of
\* cells; the largest is reached at (31, 31, 31).
C28_IndexFitsI16 ==
    (ToIndexCalled /\ ValidCoordinate(input.value)) =>
        /\ \A k \in 1..Len(call.steps) :
              call.steps[k] >= 0 /\ call.steps[k] <= I16_MAX
        /\ call.ret # PANIC
        /\ call.ret >= 0 /\ call.ret <= I16_MAX /\ call.ret < CONTENTS_SIZE
        /\ call.ret = I16_MAX => input.value = <<31, 31, 31>>

\* The index of (31, 31, 31) has been computed and is i16::MAX.
C28_LargestIndexReached ==
    /\ ToIndexCalled
    /\ input.value = <<31, 31, 31>>
    /\ call.steps[Len(call.steps)] = I16_MAX
    /\ call.ret = I16_MAX

(* --------------------------------------------------- get_block, set_block *)
\* Block identifiers; NONE is the empty cell.
STONE == 1
DIRT == 2
\* Some(()).
DONE == 1

\* The contents of a chunk are kept as the set of its <<index, block>> pairs
\* of non-empty cells (chunk.rs:236-246: every cell starts as None).
CellAt(blocks, index) ==
    IF \E cell \in blocks : cell[1] = index
    THEN (CHOOSE cell \in blocks : cell[1] = index)[2]
    ELSE NONE
SetCell(blocks, index, block) ==
    { cell \in blocks : cell[1] # index }
        \cup (IF block = NONE THEN {} ELSE { <<index, block>> })

\* chunk.rs:208-210
BlockGrid_get(blocks, position) ==
    LET index == BlockGrid_to_index(position)
    IN IF index = INVALID \/ index >= CONTENTS_SIZE THEN NONE
       ELSE CellAt(blocks, index)

\* chunk.rs:48-53
ChunkGrid_get_block(chunks, position) ==
    LET chunk_position == to_chunk_coordinates_from_ivec3(position)
    IN IF chunk_position \notin DOMAIN chunks THEN NONE
       ELSE BlockGrid_get(chunks[chunk_position], to_block_coordinates(position))

\* chunk.rs:62-67 with BlockGrid::set (chunk.rs:216-219)
ChunkGrid_set_block(chunks, position, block) ==
    LET chunk_position == to_chunk_coordinates_from_ivec3(position)
        index == BlockGrid_to_index(to_block_coordinates(position))
    IN IF chunk_position \notin DOMAIN chunks \/ index = INVALID
       THEN [ret |-> NONE, chunks |-> chunks]
       ELSE [ret |-> DONE,
             chunks |-> [chunks EXCEPT ![chunk_position] = SetCell(@, index, block)]]

\* chunk/mod.rs:34-36, 50: to_chunk_coordinates(block_coordinates.as_vec3())
to_chunk_coordinates_as_vec3(block_coordinates) ==
    << to_chunk_coord(AsF32(block_coordinates[1])),
       to_chunk_coord(AsF32(block_coordinates[2])),
       to_chunk_coord(AsF32(block_coordinates[3])) >>

\* chunk/mod.rs:46-55: the cell is written under the chunk's write lock.
ChunkGridMod_set_block(chunks, block_coordinates, block) ==
    LET chunk_position == to_chunk_coordinates_as_vec3(block_coordinates)
        index == Chunk_to_index(to_block_coordinates(block_coordinates), TRUE)
    IN IF chunk_position \notin DOMAIN chunks
       THEN [ret |-> NONE, chunks |-> chunks]
       ELSE [ret |-> DONE,
             chunks |-> [chunks EXCEPT ![chunk_position] = SetCell(@, index, block)]]

\* The grids of the runs: any of three chunks present, each empty or with a
\* stone in its first cell; the positions lie in these chunks, in the chunk
\* between them and far out.
GridChunks == { <<-1, 0, 0>>, <<0, 0, 0>>, <<524289, 0, 0>> }
Grids ==
    UNION { [present -> { {}, { <<0, STONE>> } }] : present \in SUBSET GridChunks }
Positions == { -33, -1, 0, 31, 32, FarCoordinate } \X { 0 } \X { 0, 1 }
NearPositions == { p \in Positions : p[1] \in NearAxis }

InitBlocks ==
    /\ LevelIdle
    /\ \E chunks \in Grids, position \in Positions, block \in { NONE, STONE, DIRT } :
         input = [chunks |-> chunks, position |-> position, block |-> block]
    /\ call = NoCall

call_get_block ==
    /\ call' = [op |-> "get_block",
                ret |-> ChunkGrid_get_block(input.chunks, input.position),
                chunks |-> input.chunks]
    /\ UNCHANGED << input, level_vars >>

call_set_block ==
    /\ input.block # NONE
    /\ LET result == ChunkGrid_set_block(input.chunks, input.position, input.block)
       IN call' = [op |-> "set_block", ret |-> result.ret, chunks |-> result.chunks]
    /\ UNCHANGED << input, level_vars >>

call_ChunkGridMod_set_block ==
    /\ LET result == ChunkGridMod_set_block(input.chunks, input.position, input.block)
       IN call' = [op |-> "set_block", ret |-> result.ret, chunks |-> result.chunks]
    /\ UNCHANGED << input, level_vars >>

NextBlocks ==
    \/ call_get_block
    \/ call_set_block
    \/ call_ChunkGridMod_set_block

SpecBlocks == InitBlocks /\ [][NextBlocks]_vars

\* The same runs without the far positions.
InitBlocksNear == InitBlocks /\ input.position \in NearPositions
SpecBlocksNear == InitBlocksNear /\ [][NextBlocks]_vars

\* The chunk that owns a world position and the index of the position's cell
\* in it, by floor division and Euclidean remainder.
OwningChunk(position) == << position[1] \div 32, position[2] \div 32, position[3] \div 32 >>
OwnIndex(position) ==
    (position[1] % 32) + (position[2] % 32) * 32 + (position[3] % 32) * 32 * 32

OwnerAbsentLeftAlone ==
    OwningChunk(input.position) \notin DOMAIN input.chunks =>
        /\ call.op = "set_block" => call.ret = NONE /\ call.chunks = input.chunks
        /\ call.op = "get_block" => call.ret = NONE

OwnerPresentOneCell ==
    (call.op = "set_block" /\ OwningChunk(input.position) \in DOMAIN input.chunks) =>
        /\ call.ret = DONE
        /\ call.chunks =
             [input.chunks EXCEPT ![OwningChunk(input.position)] =
                 SetCell(@, OwnIndex(input.position), input.block)]

\* C29: set_block on a position whose owning chunk is absent returns the
\* not-found signal, creates no chunk and changes no cell, and get_block of
\* such a position returns None; on a present chunk set_block changes exactly
\* the addressed cell of exactly that chunk.
C29_SetBlockNeedsItsChunk == OwnerAbsentLeftAlone /\ OwnerPresentOneCell

(***************************************************************************)
(* The atlas (atlas.rs, and blocks.rs before it).                          *)
(***************************************************************************)
\* Identifiers: the two of the game and two that no atlas of the runs knows.
GRASS == 3
SAND == 4
Identifiers == { STONE, DIRT, GRASS, SAND }

\* The Rect of the i-th texture of the built layout (i from 0); NONE is no
\* Rect.
RectOf(i) == i + 1

\* Position of an identifier in the ordered map (BTreeMap::values).
RankIn(registered, identifier) == Cardinality({ other \in registered : other < identifier })

\* atlas.rs:20-81 (blocks.rs:43-106): the manager after add_data for every
\* registered identifier, set_error_texture when an error texture is
\* designated, and rebuild_atlas: the error texture, when there is one, is
\* the first of the layout and the others follow in the order of the map.
rebuild_atlas(registered, error_texture) ==
    [data |-> [identifier \in registered |->
                 RectOf(RankIn(registered, identifier)
                        + (IF error_texture THEN 1 ELSE 0))],
     error_atlas_location |-> IF error_texture THEN RectOf(0) ELSE NONE]

\* atlas.rs:84-86 (blocks.rs:109-111)
atlas_location(manager, identifier) ==
    IF identifier \in DOMAIN manager.data THEN manager.data[identifier] ELSE NONE

\* atlas.rs:89-94: the argument of unwrap_or is evaluated before unwrap_or
\* is called, so the expect runs on every call.
AtlasManager_atlas_location_or_error(manager, identifier) ==
    LET location == atlas_location(manager, identifier)
        error == IF manager.error_atlas_location = NONE THEN PANIC
                 ELSE manager.error_atlas_location
    IN IF error = PANIC THEN PANIC
       ELSE IF location # NONE THEN location ELSE error

\* blocks.rs:113-118: the same with Block for the identifier.
BlockManager_atlas_location_or_error(manager, block) ==
    LET location == atlas_location(manager, block)
        error == IF manager.error_atlas_location = NONE THEN PANIC
                 ELSE manager.error_atlas_location
    IN IF error = PANIC THEN PANIC
       ELSE IF location # NONE THEN location ELSE error

InitAtlas ==
    /\ LevelIdle
    /\ \E registered \in SUBSET { STONE, DIRT, GRASS },
          error_texture \in BOOLEAN, identifier \in Identifiers :
         input = [registered |-> registered, error_texture |-> error_texture,
                  manager |-> rebuild_atlas(registered, error_texture),
                  identifier |-> identifier]
    /\ call = NoCall

call_AtlasManager_atlas_location_or_error ==
    /\ call' = [op |-> "AtlasManager::atlas_location_or_error",
                ret |-> AtlasManager_atlas_location_or_error(input.manager,
                                                             input.identifier)]
    /\ UNCHANGED << input, level_vars >>

call_BlockManager_atlas_location_or_error ==
    /\ call' = [op |-> "BlockManager::atlas_location_or_error",
                ret |-> BlockManager_atlas_location_or_error(input.manager,
                                                             input.identifier)]
    /\ UNCHANGED << input, level_vars >>

NextAtlas ==
    \/ call_AtlasManager_atlas_location_or_error
    \/ call_BlockManager_atlas_location_or_error

SpecAtlas == InitAtlas /\ [][NextAtlas]_vars

\* C24: the lookup of the UV rectangle of an identifier never fails hard,
\* whether or not an error texture was designated; a registered identifier
\* gets its own rectangle and an unregistered one the error rectangle.
C24_LookupNeverFailsHard ==
    call.op # "none" =>
        /\ call.ret # PANIC
        /\ input.identifier \in input.registered =>
              call.ret = input.manager.data[input.identifier]
        /\ (input.identifier \notin input.registered /\ input.error_texture) =>
              call.ret = input.manager.error_atlas_location

(***************************************************************************)
(* The meshers (chunk/mesh.rs, and meshing.rs before it).                  *)
(***************************************************************************)
SIZE_USIZE == 32
\* SIZE_USIZE * SIZE_USIZE
Z_INDEX_USIZE == 1024
CHUNK_SIZE_I32 == 32

\* The faces in the order in which both meshers go through them.
FaceOrder == << "TOP", "BOTTOM", "RIGHT", "LEFT", "BACK", "FRONT" >>
Faces == { FaceOrder[i] : i \in 1..6 }

\* meshing.rs:54-205: the neighbour a face looks at.
FaceDirection(face) ==
    CASE face = "TOP" -> << 0, 1, 0 >>
      [] face = "BOTTOM" -> << 0, -1, 0 >>
      [] face = "RIGHT" -> << 1, 0, 0 >>
      [] face = "LEFT" -> << -1, 0, 0 >>
      [] face = "BACK" -> << 0, 0, 1 >>
      [] face = "FRONT" -> << 0, 0, -1 >>

\* chunk/mesh.rs:57-253 (meshing.rs:56-221): the corners of a face around
\* the centre of its cell, in halves of a block (1 is +0.5).
FaceCorners(face) ==
    CASE face = "TOP" ->
           << << -1, 1, -1 >>, << 1, 1, -1 >>, << 1, 1, 1 >>, << -1, 1, 1 >> >>
      [] face = "BOTTOM" ->
           << << -1, -1, -1 >>, << 1, -1, -1 >>, << 1, -1, 1 >>, << -1, -1, 1 >> >>
      [] face = "RIGHT" ->
           << << 1, -1, -1 >>, << 1, -1, 1 >>, << 1, 1, 1 >>, << 1, 1, -1 >> >>
      [] face = "LEFT" ->
           << << -1, -1, -1 >>, << -1, -1, 1 >>, << -1, 1, 1 >>, << -1, 1, -1 >> >>
      [] face = "BACK" ->
           << << -1, -1, 1 >>, << -1, 1, 1 >>, << 1, 1, 1 >>, << 1, -1, 1 >> >>
      [] face = "FRONT" ->
           << << -1, -1, -1 >>, << -1, 1, -1 >>, << 1, 1, -1 >>, << 1, -1, -1 >> >>

\* chunk/mesh.rs:63-259: the normal attribute of the four vertices of a face.
FaceNormal(face) ==
    CASE face = "TOP" -> << 0, 1, 0 >>
      [] face = "BOTTOM" -> << 0, -1, 0 >>
      [] face = "RIGHT" -> << 1, 0, 0 >>
      [] face = "LEFT" -> << -1, 0, 0 >>
      [] face = "BACK" -> << 0, 0, 1 >>
      [] face = "FRONT" -> << 0, 0, -1 >>

\* Index lists in which the top face has the order of the bottom face.
FaceIndices_TopAsBottom(face) ==
    IF face \in { "RIGHT", "BACK" }
    THEN << 0, 3, 1, 1, 3, 2 >>
    ELSE << 0, 1, 3, 1, 2, 3 >>

\* chunk/mesh.rs:69-267: the indices of the two triangles of a face, before
\* indices_offset is added.
FaceIndices(face) ==
    IF face \in { "TOP", "RIGHT", "BACK" }
    THEN << 0, 3, 1, 1, 3, 2 >>
    ELSE << 0, 1, 3, 1, 2, 3 >>

\* main.rs:256-277: the atlas the game meshes with.
setup_atlases == rebuild_atlas({ STONE, DIRT }, TRUE)

\* chunk/mesh.rs:76-81: the four corners of the rect of a block, min as 0
\* and max as 1.
RectCorners(atlas_rect) ==
    << << atlas_rect, 0, 0 >>, << atlas_rect, 1, 0 >>,
       << atlas_rect, 1, 1 >>, << atlas_rect, 0, 1 >> >>

\* A face whose indices are not moved by indices_offset.
Quad_NoOffset(position, face, indices_offset, atlas_rect) ==
    [cell |-> position,
     face |-> face,
     positions |-> [i \in 1..4 |->
                      << 2 * position[1] + FaceCorners(face)[i][1],
                         2 * position[2] + FaceCorners(face)[i][2],
                         2 * position[3] + FaceCorners(face)[i][3] >>],
     normals |-> [i \in 1..4 |-> FaceNormal(face)],
     indices |-> [i \in 1..6 |-> FaceIndices(face)[i]],
     uv_0 |-> RectCorners(atlas_rect)]

\* chunk/mesh.rs:57-84: what one face appends to the four attribute lists;
\* positions are in halves of a block.
Quad(position, face, indices_offset, atlas_rect) ==
    [cell |-> position,
     face |-> face,
     positions |-> [i \in 1..4 |->
                      << 2 * position[1] + FaceCorners(face)[i][1],
                         2 * position[2] + FaceCorners(face)[i][2],
                         2 * position[3] + FaceCorners(face)[i][3] >>],
     normals |-> [i \in 1..4 |-> FaceNormal(face)],
     indices |-> [i \in 1..6 |-> indices_offset + FaceIndices(face)[i]],
     uv_0 |-> RectCorners(atlas_rect)]

\* The lists after the loop: the faces to emit are <<index, number of the
\* face, position, rect>>; they are appended by index and, within a cell, in
\* the order of the faces, and indices_offset grows by 4 with each.
Emitted(faces) ==
    LET Before(e) == Cardinality({ other \in faces :
                        \/ other[1] < e[1]
                        \/ other[1] = e[1] /\ other[2] < e[2] })
    IN [n \in 1..Cardinality(faces) |->
          LET e == CHOOSE e \in faces : Before(e) = n - 1
          IN Quad(e[3], FaceOrder[e[2]], 4 * (n - 1), e[4])]

\* chunk/mesh.rs:48-55, 87-94, 125-132, 163-170, 201-208, 239-246: the
\* condition of each face; contents.get beyond the array is None.
build_mesh_face(blocks, index, face) ==
    CASE face = "TOP" ->
           /\ (index \div SIZE_USIZE) % SIZE_USIZE # SIZE_USIZE - 1
           /\ CellAt(blocks, index + SIZE_USIZE) = NONE
      [] face = "BOTTOM" ->
           /\ (index \div SIZE_USIZE) % SIZE_USIZE # 0
           /\ CellAt(blocks, index - SIZE_USIZE) = NONE
      [] face = "RIGHT" ->
           /\ index % SIZE_USIZE # SIZE_USIZE - 1
           /\ CellAt(blocks, index + 1) = NONE
      [] face = "LEFT" ->
           /\ index % SIZE_USIZE # 0
           /\ CellAt(blocks, index - 1) = NONE
      [] face = "BACK" ->
           /\ index \div Z_INDEX_USIZE # SIZE_USIZE - 1
           /\ CellAt(blocks, index + Z_INDEX_USIZE) = NONE
      [] face = "FRONT" ->
           /\ index \div Z_INDEX_USIZE # 0
           /\ CellAt(blocks, index - Z_INDEX_USIZE) = NONE

\* A build that reports an empty chunk like a vanished one.
build_mesh_EmptyIsUnavailable(blocks, chunk_dropped_at, atlas_dropped_at, atlas) ==
    LET faces == { << cell[1], f,
                      Chunk_to_block_coordinates_from_index(cell[1]),
                      AtlasManager_atlas_location_or_error(atlas, cell[2]) >> :
                   cell \in blocks, f \in 1..6 }
        emitted == { e \in faces : build_mesh_face(blocks, e[1], FaceOrder[e[2]]) }
    IN IF chunk_dropped_at < CONTENTS_SIZE THEN [tag |-> "None"]
       ELSE IF \E cell \in blocks : cell[1] >= atlas_dropped_at THEN [tag |-> "None"]
       ELSE IF emitted = {} THEN [tag |-> "None"]
       ELSE [tag |-> "Some(Some)", mesh |-> Emitted(emitted)]

\* chunk/mesh.rs:14-292.  The two Weak references can be invalidated by
\* other threads while the loop runs: upgrade fails from the index at which
\* the reference was dropped (CONTENTS_SIZE: not during the build).  The
\* chunk is upgraded at every index, the atlas at the solid cells only.
build_mesh(blocks, chunk_dropped_at, atlas_dropped_at, atlas) ==
    LET faces == { << cell[1], f,
                      Chunk_to_block_coordinates_from_index(cell[1]),
                      AtlasManager_atlas_location_or_error(atlas, cell[2]) >> :
                   cell \in blocks, f \in 1..6 }
        emitted == { e \in faces : build_mesh_face(blocks, e[1], FaceOrder[e[2]]) }
    IN IF chunk_dropped_at < CONTENTS_SIZE THEN [tag |-> "None"]
       ELSE IF \E cell \in blocks : cell[1] >= atlas_dropped_at THEN [tag |-> "None"]
       ELSE IF emitted = {} THEN [tag |-> "Some(None)"]
       ELSE [tag |-> "Some(Some)", mesh |-> Emitted(emitted)]

\* meshing.rs:28-251: the neighbour of a face is looked up in the grid, in
\* whichever chunk holds it; an index has coordinates when i16 holds it.
rebuild_chunk_mesh(chunks, block_manager, chunk_position) ==
    LET blocks == chunks[chunk_position]
        Neighbour(position, f) ==
            << position[1] + chunk_position[1] * CHUNK_SIZE_I32
                  + FaceDirection(FaceOrder[f])[1],
               position[2] + chunk_position[2] * CHUNK_SIZE_I32
                  + FaceDirection(FaceOrder[f])[2],
               position[3] + chunk_position[3] * CHUNK_SIZE_I32
                  + FaceDirection(FaceOrder[f])[3] >>
        faces == { << cell[1], f,
                      BlockGrid_to_block_coordinates_from_index(cell[1]),
                      BlockManager_atlas_location_or_error(block_manager, cell[2]) >> :
                   cell \in { c \in blocks : FitsI16(c[1]) },
                   f \in 1..6 }
        emitted == { e \in faces :
                       ChunkGrid_get_block(chunks, Neighbour(e[3], e[2])) = NONE }
    IN IF emitted = {} THEN [tag |-> "None"]
       ELSE [tag |-> "Some", mesh |-> Emitted(emitted)]

\* The chunks of the runs: chunk (0, 0, 0) is meshed; one of its cells, in
\* the middle, in a corner or on a side, is empty or holds a block, any of
\* its six neighbours hold a block, and the chunks around (0, 0, 0) are
\* loaded or not (a neighbour in a chunk that is not loaded does not exist).
FocusCells == { << 5, 5, 5 >>, << 0, 0, 0 >>, << 31, 5, 5 >>, << 31, 31, 31 >> }
Meshed == << 0, 0, 0 >>
Beside(position, face) ==
    << position[1] + FaceDirection(face)[1],
       position[2] + FaceDirection(face)[2],
       position[3] + FaceDirection(face)[3] >>
ChunksAround(focus, block, neighbours, neighbours_loaded) ==
    LET placed == { << Beside(focus, face), DIRT >> : face \in neighbours }
                    \cup (IF block = NONE THEN {} ELSE { << focus, block >> })
        loaded == { Meshed } \cup
                    (IF neighbours_loaded
                     THEN { OwningChunk(Beside(focus, face)) : face \in Faces }
                     ELSE {})
    IN [k \in loaded |->
          { << OwnIndex(b[1]), b[2] >> : b \in { b \in placed : OwningChunk(b[1]) = k } }]

InitMeshing ==
    /\ LevelIdle
    /\ \E focus \in FocusCells, block \in { NONE, STONE, GRASS },
          neighbours \in SUBSET Faces, neighbours_loaded \in BOOLEAN :
         \E chunk_dropped_at \in { OwnIndex(focus) + 1, CONTENTS_SIZE },
            atlas_dropped_at \in { 0, OwnIndex(focus) + 1, CONTENTS_SIZE } :
           input = [focus |-> focus,
                    chunks |-> ChunksAround(focus, block, neighbours,
                                            neighbours_loaded),
                    chunk_dropped_at |-> chunk_dropped_at,
                    atlas_dropped_at |-> atlas_dropped_at]
    /\ call = NoCall

call_build_mesh ==
    /\ call' = [op |-> "build_mesh",
                ret |-> build_mesh(input.chunks[Meshed], input.chunk_dropped_at,
                                   input.atlas_dropped_at, setup_atlases)]
    /\ UNCHANGED << input, level_vars >>

call_rebuild_chunk_mesh ==
    /\ call' = [op |-> "rebuild_chunk_mesh",
                ret |-> rebuild_chunk_mesh(input.chunks, setup_atlases, Meshed)]
    /\ UNCHANGED << input, level_vars >>

NextMeshing ==
    \/ call_build_mesh
    \/ call_rebuild_chunk_mesh

SpecMeshing == InitMeshing /\ [][NextMeshing]_vars

\* The quads of a returned mesh, and the n-th vertex of its lists (from 0).
QuadsOf(ret) ==
    IF ret.tag \in { "Some(Some)", "Some" }
    THEN { ret.mesh[n] : n \in 1..Len(ret.mesh) }
    ELSE {}
VertexAt(mesh, n) == mesh[(n \div 4) + 1].positions[(n % 4) + 1]
NormalAt(mesh, n) == mesh[(n \div 4) + 1].normals[(n % 4) + 1]

\* Whether the grid holds a block at a world position.
SolidAt(chunks, position) ==
    /\ OwningChunk(position) \in DOMAIN chunks
    /\ CellAt(chunks[OwningChunk(position)], OwnIndex(position)) # NONE

C22_FaceIffNeighbourEmpty ==
    (/\ call.op \in { "build_mesh", "rebuild_chunk_mesh" }
     /\ SolidAt(input.chunks, input.focus)
     /\ call.op = "build_mesh" => call.ret.tag # "None") =>
        /\ \A face \in Faces :
              LET quads == { q \in QuadsOf(call.ret) :
                               q.cell = input.focus /\ q.face = face }
              IN /\ Cardinality(quads) =
                      (IF SolidAt(input.chunks, Beside(input.focus, face))
                       THEN 0 ELSE 1)
                 /\ \A q \in quads : Len(q.positions) = 4 /\ Len(q.indices) = 6
        /\ (\A face \in Faces : ~SolidAt(input.chunks, Beside(input.focus, face)))
              => Cardinality({ q \in QuadsOf(call.ret) : q.cell = input.focus }) = 6

Cross(u, v) ==
    << u[2] * v[3] - u[3] * v[2],
       u[3] * v[1] - u[1] * v[3],
       u[1] * v[2] - u[2] * v[1] >>
Minus(u, v) == << u[1] - v[1], u[2] - v[2], u[3] - v[3] >>
Opposite(face) ==
    CASE face = "TOP" -> "BOTTOM" [] face = "BOTTOM" -> "TOP"
      [] face = "RIGHT" -> "LEFT" [] face = "LEFT" -> "RIGHT"
      [] face = "BACK" -> "FRONT" [] face = "FRONT" -> "BACK"
Mirror(indices) ==
    << indices[1], indices[3], indices[2], indices[4], indices[6], indices[5] >>

\* C23: in every returned mesh both triangles of every quad, taken in index
\* order over the vertex list, have the cross product of their edges along
\* the normal attribute of their vertices (edges are two half-blocks long,
\* so the product is four times the unit normal), and the index order of a
\* face, counted from the first vertex of its quad, is the mirror of the
\* order of the opposite face.
C23_WindingFollowsNormal ==
    call.op \in { "build_mesh", "rebuild_chunk_mesh" } =>
        \A q \in QuadsOf(call.ret) :
            /\ \A t \in 0..1 :
                  LET a == q.indices[3 * t + 1]
                      b == q.indices[3 * t + 2]
                      c == q.indices[3 * t + 3]
                      n == NormalAt(call.ret.mesh, a)
                  IN /\ NormalAt(call.ret.mesh, b) = n
                     /\ NormalAt(call.ret.mesh, c) = n
                     /\ Cross(Minus(VertexAt(call.ret.mesh, b), VertexAt(call.ret.mesh, a)),
                              Minus(VertexAt(call.ret.mesh, c), VertexAt(call.ret.mesh, a)))
                          = << 4 * n[1], 4 * n[2], 4 * n[3] >>
            /\ \A r \in QuadsOf(call.ret) :
                  r.face = Opposite(q.face) =>
                      [i \in 1..6 |-> r.indices[i] - r.indices[1]]
                          = Mirror([i \in 1..6 |-> q.indices[i] - q.indices[1]])

\* A mesh with all six faces of one block was returned.
C23_AllSixFacesMeshed ==
    /\ call.op \in { "build_mesh", "rebuild_chunk_mesh" }
    /\ \A face \in Faces :
          \E q \in QuadsOf(call.ret) : q.cell = input.focus /\ q.face = face

(***************************************************************************)
(* Saved chunks (chunk/mod.rs, level/mod.rs).                              *)
(***************************************************************************)
DEFAULT_NAMESPACE == "builtin"
CHUNK_BLOCK_COUNT == 32768

\* main.rs:92-111, block/mod.rs: a Block is its Identifier(namespace, name).
IdentifierOf(block) ==
    CASE block = STONE -> << DEFAULT_NAMESPACE, "stone" >>
      [] block = DIRT -> << DEFAULT_NAMESPACE, "dirt" >>
      [] block = GRASS -> << DEFAULT_NAMESPACE, "grass" >>
      [] block = SAND -> << DEFAULT_NAMESPACE, "sand" >>
BlockOf(identifier) ==
    CHOOSE block \in Identifiers : IdentifierOf(block) = identifier

\* chunk/mod.rs:58-63, 143-147 with level/mod.rs:441: the JSON text of a
\* chunk is one object with the field "contents" (position is skipped), an
\* array of CONTENTS_SIZE elements, null for an empty cell and
\* {"identifier":[namespace, name]} for a block.  The array is kept as its
\* length and its elements that are not null, by their place.
Chunk_serialize(chunk) ==
    [contents |->
       [len |-> CONTENTS_SIZE,
        elements |-> { << cell[1], [identifier |-> IdentifierOf(cell[2])] >> :
                       cell \in chunk.contents }]]

\* A decoder that takes nothing but a sequence of CONTENTS_SIZE elements.
SerializableChunkContents_deserialize_Exact(seq) ==
    LET read == { e \in seq.elements : e[1] < CONTENTS_SIZE /\ e[1] < seq.len }
    IN IF seq.len # CONTENTS_SIZE \/ \E e \in read : "identifier" \notin DOMAIN e[2]
       THEN [ok |-> FALSE]
       ELSE [ok |-> TRUE,
             contents |-> { << e[1], BlockOf(e[2].identifier) >> : e \in read }]

\* chunk/mod.rs:155-187: visit_seq starts from the default contents (all
\* None) and stores the elements of the sequence by their place until the
\* sequence ends or CONTENTS_SIZE elements are read; an element that is no
\* Option<Block> is an error (next_element()?).
SerializableChunkContents_deserialize(seq) ==
    LET read == { e \in seq.elements : e[1] < CONTENTS_SIZE /\ e[1] < seq.len }
    IN IF \E e \in read : "identifier" \notin DOMAIN e[2]
       THEN [ok |-> FALSE]
       ELSE [ok |-> TRUE,
             contents |-> { << e[1], BlockOf(e[2].identifier) >> : e \in read }]

\* chunk.rs:250-279: the same over CHUNK_BLOCK_COUNT cells.
Blocks_deserialize(seq) ==
    LET read == { e \in seq.elements : e[1] < CHUNK_BLOCK_COUNT /\ e[1] < seq.len }
    IN IF \E e \in read : "identifier" \notin DOMAIN e[2]
       THEN [ok |-> FALSE]
       ELSE [ok |-> TRUE,
             contents |-> { << e[1], BlockOf(e[2].identifier) >> : e \in read }]

\* chunk/mod.rs:58-63: the derived Deserialize; the skipped position is
\* IVec3::default(), and a text that is no object with "contents" is an
\* error, as is an error of the contents.
Chunk_deserialize(file) ==
    IF "contents" \notin DOMAIN file THEN [ok |-> FALSE]
    ELSE LET contents_read == SerializableChunkContents_deserialize(file.contents)
         IN IF ~contents_read.ok THEN [ok |-> FALSE]
            ELSE [ok |-> TRUE,
                  chunk |-> [position |-> << 0, 0, 0 >>,
                             contents |-> contents_read.contents]]

\* A loader that leaves the chunk as it was deserialized.
create_chunk_from_file_Unstamped(file, position) ==
    LET deserialized == Chunk_deserialize(file)
    IN IF deserialized.ok
       THEN [loaded |-> TRUE, chunk |-> deserialized.chunk]
       ELSE [loaded |-> FALSE]

\* level/mod.rs:191-208: the chunk create_chunk takes from a file that was
\* read; a file that does not deserialize leaves the chunk to
\* Chunk::generate.
create_chunk_from_file(file, position) ==
    LET deserialized == Chunk_deserialize(file)
    IN IF deserialized.ok
       THEN [loaded |-> TRUE,
             chunk |-> [deserialized.chunk EXCEPT !.position = position]]
       ELSE [loaded |-> FALSE]

\* The chunks of the runs: the first cell, its neighbour and the last cell,
\* each empty or with one of two blocks, saved at one coordinate and loaded
\* for another or the same.
SavedCells == { 0, 1, CONTENTS_SIZE - 1 }
SavedContents ==
    UNION { { { << i, blocks[i] >> : i \in cells } : blocks \in [cells -> { STONE, DIRT }] } :
            cells \in SUBSET SavedCells }
SavedPositions == { << 0, 0, 0 >>, << 1, -2, 3 >>, << -1, 0, 0 >> }

InitSaving ==
    /\ LevelIdle
    /\ \E saved \in SavedContents, position \in SavedPositions, k \in SavedPositions :
         input = [chunk |-> [position |-> position, contents |-> saved], k |-> k]
    /\ call = NoCall

call_Chunk_serialize ==
    /\ call.op = "none"
    /\ call' = [op |-> "serialize", file |-> Chunk_serialize(input.chunk)]
    /\ UNCHANGED << input, level_vars >>

call_create_chunk_from_file ==
    /\ call.op = "serialize"
    /\ call' = [op |-> "create_chunk", ret |-> create_chunk_from_file(call.file, input.k)]
    /\ UNCHANGED << input, level_vars >>

NextSaving ==
    \/ call_Chunk_serialize
    \/ call_create_chunk_from_file

SpecSaving == InitSaving /\ [][NextSaving]_vars

\* C30: a chunk that was serialized and then loaded for coordinate k has in
\* each of its cells what the original had (the same presence, the same
\* identifier) and the position k, whatever position the original had.
C30_SaveLoadRoundTrip ==
    call.op = "create_chunk" =>
        /\ call.ret.loaded
        /\ \A index \in 0..(CONTENTS_SIZE - 1) :
              CellAt(call.ret.chunk.contents, index) = CellAt(input.chunk.contents, index)
        /\ call.ret.chunk.position = input.k

\* A chunk with blocks was loaded for another coordinate than it was saved at.
C30_LoadedElsewhere ==
    /\ call.op = "create_chunk"
    /\ input.chunk.position # input.k
    /\ input.k # << 0, 0, 0 >>
    /\ Cardinality(input.chunk.contents) = 3

\* chunk/mesh.rs:282-291: an attribute list of the mesh is what the faces
\* appended to it, one after the other.
RECURSIVE Extended(_)
Extended(slices) ==
    IF slices = << >> THEN << >> ELSE Head(slices) \o Extended(Tail(slices))

\* C40: in every mesh a mesher returns the position, normal and UV lists
\* have one length, 4 times the number of quads, the index list has 6
\* entries for every quad, every index is below the number of vertices and
\* the indices of a quad point at its own four vertices.
C40_ListsAgree ==
    (call.op \in { "build_mesh", "rebuild_chunk_mesh" }
        /\ call.ret.tag \in { "Some(Some)", "Some" }) =>
        LET mesh == call.ret.mesh
            quads == Len(mesh)
            positions == Extended([n \in 1..quads |-> mesh[n].positions])
            normals == Extended([n \in 1..quads |-> mesh[n].normals])
            uv_0 == Extended([n \in 1..quads |-> mesh[n].uv_0])
            indices == Extended([n \in 1..quads |-> mesh[n].indices])
        IN /\ quads > 0
           /\ Len(positions) = 4 * quads
           /\ Len(normals) = 4 * quads
           /\ Len(uv_0) = 4 * quads
           /\ Len(indices) = 6 * quads
           /\ \A i \in 1..Len(indices) :
                 /\ indices[i] >= 0
                 /\ indices[i] < Len(positions)
                 /\ indices[i] \div 4 = (i - 1) \div 6

\* A mesh of the faces of several blocks was returned.
C40_SeveralBlocksMeshed ==
    /\ call.op \in { "build_mesh", "rebuild_chunk_mesh" }
    /\ call.ret.tag \in { "Some(Some)", "Some" }
    /\ Cardinality({ q.cell : q \in QuadsOf(call.ret) }) >= 3

(***************************************************************************)
(* Generation (chunk/mod.rs, and chunk.rs before it).                      *)
(***************************************************************************)
SIZE_I32 == 32

\* chunk/mod.rs:81-82: the height of a column, (sample * 10.) as i32 + 2.
\* The noise of a run gives one height to one column and another height to
\* every other column.
HeightAt(noise, raw_x, raw_z) ==
    IF << raw_x, raw_z >> = noise.column THEN noise.at ELSE noise.elsewhere

\* chunk/mod.rs:74-100 with set_area (chunk/mod.rs:131-140): a column whose
\* height is below position.y * SIZE_I32 is skipped, any other is set from
\* y = 0 to (height + position.y.abs() * SIZE_I32).min(SIZE_I32 - 1).
Chunk_generate(position, noise) ==
    [position |-> position,
     contents |->
       { << x + y * SIZE_I16 + z * Z_INDEX_I16, STONE >> :
         << x, y, z >> \in
           { c \in (0..(SIZE_I32 - 1)) \X (0..(SIZE_I32 - 1)) \X (0..(SIZE_I32 - 1)) :
               LET height == HeightAt(noise, position[1] * SIZE_I32 + c[1],
                                      position[3] * SIZE_I32 + c[3])
                   top == height + Abs(position[2]) * SIZE_I32
               IN /\ ~(height < position[2] * SIZE_I32)
                  /\ c[2] <= (IF top < SIZE_I32 - 1 THEN top ELSE SIZE_I32 - 1) } }]

\* chunk.rs:121-145 with BlockGrid::set_area (chunk.rs:221-233): the same
\* with CHUNK_SIZE_I32; the ends of the column are valid coordinates.
ChunkGrid_generate_chunk(position, noise) ==
    [position |-> position,
     contents |->
       { << x + y * CHUNK_SIZE_I16 + z * CHUNK_SIZE_I16 * CHUNK_SIZE_I16, STONE >> :
         << x, y, z >> \in
           { c \in (0..(CHUNK_SIZE_I32 - 1)) \X (0..(CHUNK_SIZE_I32 - 1))
                     \X (0..(CHUNK_SIZE_I32 - 1)) :
               LET height == HeightAt(noise, position[1] * CHUNK_SIZE_I32 + c[1],
                                      position[3] * CHUNK_SIZE_I32 + c[3])
                   top == height + Abs(position[2]) * CHUNK_SIZE_I32
               IN /\ ~(height < position[2] * CHUNK_SIZE_I32)
                  /\ c[2] <= (IF top < CHUNK_SIZE_I32 - 1 THEN top
                              ELSE CHUNK_SIZE_I32 - 1) } }]

\* The chunks of the runs lie below, at and above y = 0; one column has a
\* height of its own, below, inside or above the chunk, the others are
\* empty or three blocks high.
GeneratedY == -1..1
ColumnHeights == { -33, -32, -1, 0, 5, 31, 32, 40, 64 }
InitGeneration ==
    /\ LevelIdle
    /\ \E x \in { -1, 0 }, y \in GeneratedY, at \in ColumnHeights,
          elsewhere \in { -1000, 3 } :
         input = [position |-> << x, y, 0 >>,
                  noise |-> [column |-> << x * SIZE_I32 + 3, 4 >>,
                             at |-> at, elsewhere |-> elsewhere]]
    /\ call = NoCall

call_Chunk_generate ==
    /\ call' = [op |-> "Chunk::generate",
                ret |-> Chunk_generate(input.position, input.noise)]
    /\ UNCHANGED << input, level_vars >>

call_ChunkGrid_generate_chunk ==
    /\ call' = [op |-> "ChunkGrid::generate_chunk",
                ret |-> ChunkGrid_generate_chunk(input.position, input.noise)]
    /\ UNCHANGED << input, level_vars >>

NextGeneration ==
    \/ call_Chunk_generate
    \/ call_ChunkGrid_generate_chunk

SpecGeneration == InitGeneration /\ [][NextGeneration]_vars

\* C33: in a generated chunk a cell is solid exactly when its world y is at
\* most the height of its column, so a column is filled from the lower
\* bound of the chunk up to min(height, top of the chunk) and is empty when
\* its height lies below the chunk, for chunks below, at and above y = 0.
C33_ColumnsFilledToHeight ==
    call.op \in { "Chunk::generate", "ChunkGrid::generate_chunk" } =>
        /\ call.ret.position = input.position
        /\ call.ret.contents =
             { << c[1] + c[2] * 32 + c[3] * 1024, STONE >> :
               c \in { c \in (0..31) \X (0..31) \X (0..31) :
                         input.position[2] * 32 + c[2]
                            <= HeightAt(input.noise, input.position[1] * 32 + c[1],
                                        input.position[3] * 32 + c[3]) } }

(***************************************************************************)
(* Loading (level/mod.rs, chunk/mod.rs, chunk.rs).                         *)
(***************************************************************************)
\* level/mod.rs:191-209: the chunk of create_chunk.  read is the outcome of
\* fs::read_to_string: a text, or no text when the file is missing or
\* cannot be read.
create_chunk_chunk_EmptyOnFailure(read, position, noise) ==
    IF read.ok /\ create_chunk_from_file(read.text, position).loaded
    THEN create_chunk_from_file(read.text, position).chunk
    ELSE [position |-> position, contents |-> {}]

create_chunk_chunk(read, position, noise) ==
    IF read.ok /\ create_chunk_from_file(read.text, position).loaded
    THEN create_chunk_from_file(read.text, position).chunk
    ELSE Chunk_generate(position, noise)

\* The files of the runs: none, a text that is no chunk, and sequences of 0
\* to 3 or of all cells, whose first three elements are null or a block and
\* whose second may be something that is no cell.
FileLengths == { 0, 1, 2, 3, CONTENTS_SIZE }
Malformed == [number |-> 7]
FileElements ==
    { << 0, [identifier |-> IdentifierOf(STONE)] >>,
      << 1, [identifier |-> IdentifierOf(DIRT)] >>,
      << 1, Malformed >>,
      << 2, [identifier |-> IdentifierOf(STONE)] >> }
FileSequences ==
    { [len |-> len, elements |-> elements] :
      len \in FileLengths,
      elements \in { e \in SUBSET FileElements :
                       \A a \in e, b \in e : a[1] = b[1] => a = b } }
FilesRead ==
    { [ok |-> FALSE], [ok |-> TRUE, text |-> [garbage |-> TRUE]] }
        \cup { [ok |-> TRUE, text |-> [contents |-> seq]] :
               seq \in { q \in FileSequences : \A e \in q.elements : e[1] < q.len } }
WellFormed(seq) == \A e \in seq.elements : "identifier" \in DOMAIN e[2]

InitLoading ==
    /\ LevelIdle
    /\ \E read \in FilesRead, k \in { << 0, 0, 0 >>, << 1, -1, 3 >> } :
         input = [read |-> read, k |-> k,
                  noise |-> [column |-> << k[1] * SIZE_I32 + 3, k[3] * SIZE_I32 + 4 >>,
                             at |-> 5, elsewhere |-> -1000]]
    /\ call = NoCall

call_SerializableChunkContents_deserialize ==
    /\ input.read.ok
    /\ "contents" \in DOMAIN input.read.text
    /\ call' = [op |-> "SerializableChunkContents::deserialize",
                ret |-> SerializableChunkContents_deserialize(input.read.text.contents)]
    /\ UNCHANGED << input, level_vars >>

call_Blocks_deserialize ==
    /\ input.read.ok
    /\ "contents" \in DOMAIN input.read.text
    /\ call' = [op |-> "Blocks::deserialize",
                ret |-> Blocks_deserialize(input.read.text.contents)]
    /\ UNCHANGED << input, level_vars >>

call_create_chunk ==
    /\ call' = [op |-> "create_chunk",
                ret |-> create_chunk_chunk(input.read, input.k, input.noise)]
    /\ UNCHANGED << input, level_vars >>

NextLoading ==
    \/ call_SerializableChunkContents_deserialize
    \/ call_Blocks_deserialize
    \/ call_create_chunk

SpecLoading == InitLoading /\ [][NextLoading]_vars

\* C31: decoding a sequence of cells shorter than 32^3 succeeds; each cell
\* of the sequence is at its index and every cell past its end is empty.
C31_ShortSequenceDecodes ==
    (/\ call.op \in { "SerializableChunkContents::deserialize", "Blocks::deserialize" }
     /\ input.read.text.contents.len < CONTENTS_SIZE
     /\ WellFormed(input.read.text.contents)) =>
        /\ call.ret.ok
        /\ \A e \in input.read.text.contents.elements :
              CellAt(call.ret.contents, e[1]) = BlockOf(e[2].identifier)
        /\ \A cell \in call.ret.contents :
              /\ cell[1] < input.read.text.contents.len
              /\ \E e \in input.read.text.contents.elements : e[1] = cell[1]

\* A sequence of three cells, two of them blocks, was decoded.
C31_ThreeCellsDecoded ==
    /\ call.op \in { "SerializableChunkContents::deserialize", "Blocks::deserialize" }
    /\ input.read.text.contents.len = 3
    /\ WellFormed(input.read.text.contents)
    /\ Cardinality(input.read.text.contents.elements) = 2
    /\ call.ret.ok

\* C32: create_chunk has a chunk of the requested coordinate whatever the
\* file: the cells of the file when it was read and decodes, the generated
\* chunk when it is missing, unreadable or does not decode.
C32_LoadOrGenerate ==
    call.op = "create_chunk" =>
        LET decodes == /\ input.read.ok
                       /\ "contents" \in DOMAIN input.read.text
                       /\ WellFormed(input.read.text.contents)
        IN /\ call.ret.position = input.k
           /\ decodes =>
                 call.ret.contents =
                    { << e[1], BlockOf(e[2].identifier) >> :
                      e \in input.read.text.contents.elements }
           /\ ~decodes => call.ret = Chunk_generate(input.k, input.noise)

\* A file with an element that is no cell was read, and the chunk generated.
C32_BrokenFileGenerated ==
    /\ call.op = "create_chunk"
    /\ input.read.ok
    /\ "contents" \in DOMAIN input.read.text
    /\ ~WellFormed(input.read.text.contents)
    /\ call.ret.contents # {}

(***************************************************************************)
(* The mesh state map and the entities of level/mod.rs.                    *)
(***************************************************************************)
\* C34: an Unmeshed entry of the mesh state map is taken out of the map
\* only when its chunk is being evicted; until then it stays, or becomes
\* Ready by the hand-off of its mesh task.  In particular the deferred
\* removal of an earlier apply_ready_meshes does not delete it.
C34_UnmeshedStaysUntilCommit ==
    [][\A p \in World :
          (mesh_states[p].tag = "Unmeshed" /\ mesh_states'[p] = NoEntry)
             => p \in removed]_vars

\* level/mod.rs at rest: no task and no deferred removal in flight, nothing
\* queued for meshing, no entry in the mesh state map.
MeshingAtRest ==
    /\ tasks = EmptyBag
    /\ cleanup_tasks = EmptyBag
    /\ remesh = {}
    /\ \A p \in World : mesh_states[p] = NoEntry

\* C35: when level/mod.rs is at rest, the mesh of the entity of every chunk
\* in the grid was built from the chunk's contents as they are: no result
\* computed before the last edit is the one that stays applied.
C35_AppliedMeshIsCurrent ==
    MeshingAtRest =>
        \A p \in World :
            (chunk_grid[p] # NONE /\ chunk_entities[p] /\ entity_mesh[p] # NONE)
                => SeenEdits(entity_mesh[p]) = contents[p]

\* C36: in level/mod.rs no coordinate is both in the chunk grid and in the
\* set of coordinates pending eviction, and a coordinate with a chunk in the
\* grid has no entry in the generation state map.
C36_GridExcludesRemovedAndTracked ==
    \A p \in World :
        chunk_grid[p] # NONE => (p \notin removed /\ chunk_states[p] = NoEntry)

\* A chunk that was evicted and saved is in the grid again, loaded a second
\* time: its coordinate has been through the removed set and a Removed entry.
C36_ReloadedAfterEviction ==
    \E p \in World :
        /\ revision = "level/mod.rs"
        /\ chunk_grid[p] # NONE
        /\ epoch[p] >= 2
        /\ files[p] # NONE

\* The level at rest: no task and no deferred removal in flight, no entry in
\* the generation state map nor in the mesh state map.
LevelAtRest ==
    /\ tasks = EmptyBag
    /\ cleanup_tasks = EmptyBag
    /\ \A p \in World : chunk_states[p] = NoEntry /\ mesh_states[p] = NoEntry

\* At rest every live render entity is the mapped entity of a chunk in the
\* grid (so an entity that eviction took out of the map has been despawned).
EntitiesHaveChunks ==
    LevelAtRest =>
        \A p \in World :
            /\ live_entities[p] = (IF chunk_entities[p] THEN 1 ELSE 0)
            /\ chunk_entities[p] => chunk_grid[p] # NONE

\* The coordinate is being loaded again in level.rs: it was marked and a
\* generate_chunk task has yet to insert its chunk.
LoadedAgain(p) ==
    /\ revision = "level.rs"
    /\ chunk_states[p] # NoEntry
    /\ TasksIn("generate_chunk", p, { "start", "generating" }) > 0

\* A mesh result spawns an entity only for a coordinate that has its chunk in
\* the grid, whose eviction is still under way, or that is being loaded again.
SpawnedForLoaded ==
    \A p \in World :
        live_entities'[p] > live_entities[p] =>
            (chunk_grid[p] # NONE \/ EvictionStarted(p) \/ LoadedAgain(p))

\* C37: no render entity outlives its chunk: at rest every entity belongs to
\* a coordinate with a chunk in the grid, every entity taken out of the
\* entity map by eviction is despawned, and no mesh result creates an entity
\* for a coordinate after its cleanup unless the coordinate was loaded again.
C37_NoEntityOutlivesChunk ==
    /\ []EntitiesHaveChunks
    /\ [][SpawnedForLoaded]_vars

\* The level is at rest with the entity of a chunk that was loaded a second
\* time: the coordinate has been evicted and cleaned up before.
C37_EntityOfReloadedChunk ==
    \E p \in World :
        /\ LevelAtRest
        /\ epoch[p] >= 2
        /\ chunk_grid[p] # NONE
        /\ chunk_entities[p]
        /\ live_entities[p] = 1

\* Save tasks of p that have not yet written their state (Saved, Removed, or
\* the removal of the entry).
SavesPending(p) ==
    TasksIn("level_rs_save_chunk", p, { "start", "grid_removed", "entity_taken" })
      + TasksIn("save_chunk", p, { "start", "mesh_removed" })

\* Save tasks of p that were spawned and have not run yet.
SavesSpawned(p) ==
    TasksIn("level_rs_save_chunk", p, { "start" })
      + TasksIn("save_chunk", p, { "start" })

\* p is being evicted and has not been cleaned up.
EvictionUnderWay(p) ==
    \/ revision = "level.rs" /\ chunk_states[p].tag \in { "Saving", "Saved" }
    \/ revision = "level/mod.rs" /\ p \in removed

\* C38: a coordinate whose eviction has started is not selected for eviction
\* again: a save task is spawned for a coordinate only when none of its
\* evictions is under way, so at most one save task is spawned between the
\* chunk entering the grid and the clean-up of the coordinate.
C38_OneSavePerEviction ==
    /\ [](\A p \in World : SavesPending(p) <= 1)
    /\ [][\A p \in World :
             SavesSpawned(p)' > SavesSpawned(p) =>
                 (~EvictionUnderWay(p) /\ SavesPending(p) = 0)]_vars

\* In level.rs an out-of-range chunk is still in the grid with its entry in
\* Saving and its save task pending: the next ticks of discard_far_chunks
\* look at it again.
C38_EvictingChunkStillInGrid ==
    \E p \in World :
        /\ revision = "level.rs"
        /\ chunk_grid[p] # NONE
        /\ ~InRange(p, camera)
        /\ chunk_states[p].tag = "Saving"
        /\ SavesPending(p) = 1

(***************************************************************************)
(* Locks.  Every async fn and every system is the sequence of its          *)
(* acquisitions and releases; input names the revision and the worker     *)
(* tasks of a run, call holds each thread's position and the guards held.  *)
(* Thread 0 is the schedule: it runs one system after the other, for ever. *)
(***************************************************************************)

\* One step of a thread.  op is "read", "write", "lock" (blocking),
\* "try_read", "try_write", "try_lock", "drop", "return" (an early return
\* that may or may not be taken), "branch" (a match with two arms) or "done"
\* (the end of the fn: every guard is dropped).  A failed try goes to skip,
\* or returns from the system when skip is 0; a branch goes on or to skip.
Instr(op, lock, skip) == [op |-> op, lock |-> lock, skip |-> skip]
I(op, lock) == Instr(op, lock, 0)

\* generate_chunk with the guard of the first block kept past the block.
generate_chunk_locks_KeepsState ==
    << I("read", "chunk_states"), I("return", "chunk_states"),
       I("lock", "state"), I("return", "state"),
       I("drop", "chunk_states"),
       I("lock", "chunk_grid"), I("drop", "chunk_grid"),
       I("read", "chunk_states"), I("return", "chunk_states"),
       I("lock", "state"), I("return", "state"),
       I("done", "state") >>

\* level.rs:160-198
generate_chunk_locks ==
    << I("read", "chunk_states"), I("return", "chunk_states"),
       I("lock", "state"), I("return", "state"),
       I("drop", "state"), I("drop", "chunk_states"),
       I("lock", "chunk_grid"), I("drop", "chunk_grid"),
       I("read", "chunk_states"), I("return", "chunk_states"),
       I("lock", "state"), I("return", "state"),
       I("done", "state") >>

\* level.rs:230-274: the block manager is locked under the grid lock.
build_chunk_mesh_locks ==
    << I("read", "chunk_states"), I("return", "chunk_states"),
       I("lock", "state"), I("return", "state"),
       I("drop", "state"), I("drop", "chunk_states"),
       I("lock", "chunk_grid"), I("return", "chunk_grid"),
       I("lock", "block_manager"), I("drop", "block_manager"),
       I("drop", "chunk_grid"),
       I("read", "chunk_states"), I("return", "chunk_states"),
       I("lock", "state"), I("return", "state"),
       I("done", "state") >>

\* level.rs:391-422: the grid and entity-map guards are temporaries; with an
\* entity the entry is written under the read guard, without one the entry
\* is removed under the write guard.
level_rs_save_chunk_locks ==
    << I("lock", "chunk_grid"), I("drop", "chunk_grid"),
       I("lock", "chunk_entities"), I("drop", "chunk_entities"),
       Instr("branch", "chunk_states", 10),
       I("read", "chunk_states"), I("return", "chunk_states"),
       I("lock", "state"), I("done", "state"),
       I("write", "chunk_states"), I("done", "chunk_states") >>

\* level/mod.rs:212-220
create_chunk_locks ==
    << I("read", "chunk_states"), I("return", "chunk_states"),
       I("lock", "state"), I("return", "state"),
       I("done", "state") >>

\* level/mod.rs:289-301: build_mesh may give up before any lock is taken.
remesh_chunk_locks ==
    << I("return", "mesh_states"),
       I("read", "mesh_states"), I("return", "mesh_states"),
       I("lock", "mesh_state"), I("return", "mesh_state"),
       I("done", "mesh_state") >>

\* level/mod.rs:432-439: both write guards are temporaries.
save_chunk_locks ==
    << I("write", "mesh_states"), I("drop", "mesh_states"),
       I("write", "chunk_states"), I("done", "chunk_states") >>

\* level/mod.rs:360-368: the task apply_ready_meshes detaches.
mesh_states_cleanup_locks ==
    << I("write", "mesh_states"), I("done", "mesh_states") >>

\* The acquisitions of an async fn.
WorkerLocks(fn) ==
    CASE fn = "generate_chunk" -> generate_chunk_locks
      [] fn = "build_chunk_mesh" -> build_chunk_mesh_locks
      [] fn = "level_rs_save_chunk" -> level_rs_save_chunk_locks
      [] fn = "create_chunk" -> create_chunk_locks
      [] fn = "remesh_chunk" -> remesh_chunk_locks
      [] fn = "save_chunk" -> save_chunk_locks
      [] fn = "mesh_states_cleanup" -> mesh_states_cleanup_locks

\* level.rs:117-128, 200-210, 276-295, 329-360, 424-435: the systems take
\* every lock with a try-acquisition; the guard of an entry lives for one
\* call of the filter closure.
LevelRsSystemLocks(system) ==
    CASE system = "generate_nearby_chunks" ->
           << I("try_write", "chunk_states"), I("try_lock", "chunk_grid"),
              I("done", "chunk_grid") >>
      [] system = "build_chunk_meshes" ->
           << I("try_read", "chunk_states"), Instr("try_lock", "state", 4),
              I("drop", "state"), I("done", "chunk_states") >>
      [] system = "update_chunk_entities" ->
           << I("try_write", "chunk_states"), I("try_lock", "chunk_entities"),
              Instr("try_lock", "state", 5), I("drop", "state"),
              I("done", "chunk_entities") >>
      [] system = "discard_far_chunks" ->
           << I("try_write", "chunk_states"), I("try_lock", "chunk_grid"),
              Instr("try_lock", "state", 5), I("drop", "state"),
              I("drop", "chunk_grid"), I("done", "chunk_states") >>
      [] system = "cleanup_saved_chunks" ->
           << I("try_write", "chunk_states"), Instr("try_lock", "state", 4),
              I("drop", "state"), I("done", "chunk_states") >>

\* level/mod.rs:139-141, 225-233, 260-263, 310-318, 458-466
LevelModSystemLocks(system) ==
    CASE system = "mark_nearby_chunks_uninitialized" ->
           << I("try_write", "chunk_states"), I("done", "chunk_states") >>
      [] system = "finalize_chunk_generation" ->
           << I("try_write", "chunk_states"), Instr("try_lock", "state", 4),
              I("drop", "state"), I("done", "chunk_states") >>
      [] system = "handle_remesh_queue" ->
           << I("try_write", "mesh_states"), I("done", "mesh_states") >>
      [] system = "apply_ready_meshes" ->
           << I("try_write", "mesh_states"), Instr("try_lock", "mesh_state", 4),
              I("drop", "mesh_state"), I("done", "mesh_states") >>
      [] system = "cleanup_saved_chunks" ->
           << I("try_write", "chunk_states"), Instr("try_lock", "state", 4),
              I("drop", "state"), I("done", "chunk_states") >>

LevelRsSystems ==
    { "generate_nearby_chunks", "build_chunk_meshes", "update_chunk_entities",
      "discard_far_chunks", "cleanup_saved_chunks" }

LevelModSystems ==
    { "mark_nearby_chunks_uninitialized", "finalize_chunk_generation",
      "handle_remesh_queue", "apply_ready_meshes", "cleanup_saved_chunks" }

Systems == IF input.revision = "level.rs" THEN LevelRsSystems ELSE LevelModSystems

\* The worker tasks of a run: the tasks of one coordinate's lifecycle, and
\* two tasks of one fn next to a save.
WorkerSets ==
    { [revision |-> "level.rs",
       workers |-> << "generate_chunk", "build_chunk_mesh", "level_rs_save_chunk" >>],
      [revision |-> "level.rs",
       workers |-> << "generate_chunk", "generate_chunk", "level_rs_save_chunk" >>],
      [revision |-> "level.rs",
       workers |-> << "build_chunk_mesh", "build_chunk_mesh", "level_rs_save_chunk" >>],
      [revision |-> "level/mod.rs",
       workers |-> << "create_chunk", "remesh_chunk", "save_chunk",
                      "mesh_states_cleanup" >>],
      [revision |-> "level/mod.rs",
       workers |-> << "remesh_chunk", "remesh_chunk", "save_chunk",
                      "mesh_states_cleanup" >>] }

Workers == 1..Len(input.workers)
Threads == 0..Len(input.workers)

\* The steps of thread t: a worker's fn, or the system the schedule runs.
Program(t) ==
    IF t # 0 THEN WorkerLocks(input.workers[t])
    ELSE IF call.system = "idle" THEN << >>
    ELSE IF input.revision = "level.rs" THEN LevelRsSystemLocks(call.system)
    ELSE LevelModSystemLocks(call.system)

Running(t) == call.pc[t] \in 1..Len(Program(t))
Finished(t) == t # 0 /\ call.pc[t] > Len(Program(t))
Current(t) == Program(t)[call.pc[t]]

Mode(op) ==
    CASE op \in { "read", "try_read" } -> "read"
      [] op \in { "write", "try_write" } -> "write"
      [] OTHER -> "lock"

\* std::sync: a mutex or a write guard excludes every other guard of the
\* lock, a read guard excludes the write guard.
Free(lock, mode) ==
    \A h \in call.held :
        h.lock = lock => (mode = "read" /\ h.mode = "read")

Guard(t, instr) == [thread |-> t, lock |-> instr.lock, mode |-> Mode(instr.op)]

Dropped(t) == { h \in call.held : h.thread # t }

\* The position of t after its fn has ended: a worker is finished, the
\* schedule is between two systems.
Ended(t) == IF t = 0 THEN 0 ELSE Len(Program(t)) + 1

Goes(t, pc, held, system) ==
    /\ call' = [op |-> "locks",
                pc |-> [call.pc EXCEPT ![t] = pc],
                held |-> held,
                system |-> system]
    /\ UNCHANGED << input, level_vars >>

Returns(t) == Goes(t, Ended(t), Dropped(t), IF t = 0 THEN "idle" ELSE call.system)

InitLocks ==
    /\ LevelIdle
    /\ input \in WorkerSets
    /\ call = [op |-> "locks",
               pc |-> [t \in Threads |-> IF t = 0 THEN 0 ELSE 1],
               held |-> {},
               system |-> "idle"]

\* The schedule starts a system.
system_run(system) ==
    /\ call.system = "idle"
    /\ Goes(0, 1, call.held, system)

\* lock(), read(), write(): the thread goes on when the lock is free for it,
\* and waits until then.
acquire(t) ==
    /\ Running(t)
    /\ Current(t).op \in { "read", "write", "lock" }
    /\ Free(Current(t).lock, Mode(Current(t).op))
    /\ Goes(t, call.pc[t] + 1, call.held \cup { Guard(t, Current(t)) }, call.system)

\* try_lock(), try_read(), try_write(): never waits.
try_acquire(t) ==
    /\ Running(t)
    /\ Current(t).op \in { "try_read", "try_write", "try_lock" }
    /\ IF Free(Current(t).lock, Mode(Current(t).op))
       THEN Goes(t, call.pc[t] + 1, call.held \cup { Guard(t, Current(t)) },
                 call.system)
       ELSE IF Current(t).skip = 0
            THEN Returns(t)
            ELSE Goes(t, Current(t).skip, call.held, call.system)

\* The end of a guard's scope.
release(t) ==
    /\ Running(t)
    /\ Current(t).op = "drop"
    /\ Goes(t, call.pc[t] + 1,
            { h \in call.held : ~(h.thread = t /\ h.lock = Current(t).lock) },
            call.system)

\* A let-else or a guard on the state: the fn returns, or goes on.
early_return(t) ==
    /\ Running(t)
    /\ Current(t).op = "return"
    /\ \/ Returns(t)
       \/ Goes(t, call.pc[t] + 1, call.held, call.system)

\* A match on the entity: one arm or the other.
branch(t) ==
    /\ Running(t)
    /\ Current(t).op = "branch"
    /\ \E pc \in { call.pc[t] + 1, Current(t).skip } :
          Goes(t, pc, call.held, call.system)

\* The end of the fn.
return(t) ==
    /\ Running(t)
    /\ Current(t).op = "done"
    /\ Returns(t)

ThreadStep(t) ==
    \/ acquire(t)
    \/ try_acquire(t)
    \/ release(t)
    \/ early_return(t)
    \/ branch(t)
    \/ return(t)

NextLocks ==
    \/ \E system \in Systems : system_run(system)
    \/ \E t \in Threads : acquire(t)
    \/ \E t \in Threads : try_acquire(t)
    \/ \E t \in Threads : release(t)
    \/ \E t \in Threads : early_return(t)
    \/ \E t \in Threads : branch(t)
    \/ \E t \in Threads : return(t)

SpecLocks == InitLocks /\ [][NextLocks]_vars

\* A system that runs goes on to its end; the task pool runs a worker that
\* can step; a lock that is free again and again is given to a worker that
\* waits for it (the schedule drops every guard at the end of each system,
\* and a release wakes a waiting thread).
LocksFairness ==
    /\ WF_vars(ThreadStep(0))
    /\ WF_vars(\E t \in Workers : ThreadStep(t))
    /\ SF_vars(\E t \in Workers : acquire(t))

FairSpecLocks == SpecLocks /\ LocksFairness

\* Worker t stands at a blocking acquisition that cannot be granted; a read
\* also counts as waiting while a writer waits for the lock (the lock may
\* prefer writers).
Waits(t) ==
    /\ t \in Workers
    /\ Running(t)
    /\ Current(t).op \in { "read", "write", "lock" }
    /\ \/ ~Free(Current(t).lock, Mode(Current(t).op))
       \/ /\ Current(t).op = "read"
          /\ \E u \in Workers \ {t} :
                /\ Running(u)
                /\ Current(u).op = "write"
                /\ Current(u).lock = Current(t).lock

\* Nothing moves any more although a worker waits: no system runs, every
\* worker has finished or waits.
Deadlocked ==
    /\ call.system = "idle"
    /\ \E t \in Workers : Waits(t)
    /\ \A t \in Workers : Waits(t) \/ Finished(t)

\* C39: no interleaving of the systems (try-acquisitions only) and the
\* worker tasks (blocking acquisitions) reaches a deadlock, and whenever a
\* worker waits for a lock every worker eventually gets the locks it asks
\* for and runs to the end of its fn.
C39_NoDeadlock ==
    /\ [] ~Deadlocked
    /\ (\E t \in Workers : Waits(t)) ~> (\A t \in Workers : Finished(t))

\* A worker waits for the state map while a system holds its write guard.
C39_WorkerWaitsForSystem ==
    \E t \in Workers :
        /\ Waits(t)
        /\ Current(t).op = "read"
        /\ \E h \in call.held : h.thread = 0 /\ h.lock = Current(t).lock

====
